---- MODULE Spec2Model ----
(***************************************************************************)
(* Model of the OPI_AIRCMS sensor aggregation and delivery core: the       *)
(* manager-backed shared dictionary and its lock (main.py), the two store  *)
(* writers of update_shared_dict.py, the worker loops that call them, the  *)
(* readers of the web front end and the delivery tasks.                    *)
(*                                                                         *)
(* Every remote call on the manager dictionary (one __getitem__, one       *)
(* __setitem__, one update, one keys) is one atomic step; work on values   *)
(* a process already holds is folded into the step that fetched them.      *)
(* Non-ASCII message texts of the source are written in ASCII.             *)
(***************************************************************************)
EXTENDS Integers, Sequences, FiniteSets, TLC

VARIABLES
    shared,         \* the manager dict: top-level key -> value
    lock,           \* manager.Lock(): the holder, or Free
    now,            \* time.time()
    pc,             \* each process's position
    ret,            \* update_*: where the call returns to
    arg,            \* update_*: the call's arguments
    current_dict,   \* update_*: the local current_dict
    data,           \* a worker's local `data` / a reader's local copy
    keysLeft,       \* dict(proxy): the keys still to fetch
    seqLast,        \* history: 'Sensor data' as the writes give it, applied one by one in lock order
    snapSeq,        \* history: seqLast when a reader fetched its copy of 'Sensor data'
    interleaved,    \* history: the readers whose reads of 'Sensor data' a store fell between
    lastWritten,    \* history: what each process's latest update_* call wrote, per namespace
    consecutive_errors, \* send_data: the local consecutive_errors of each delivery task
    pm_success,     \* sensor_community.send_data: the local pm_success
    failedSince,    \* history: of each delivery task, the failed cycles since its latest successful
                    \* one, and the cycles just before now whose POSTs were all refused
    outcome,        \* history: how each delivery task's latest cycle ended
    http,           \* history: the HTTP requests of each delivery task's latest send or push
                    \* call, with the status each was answered with, and what the call returned
    driver,         \* each process's driver object: its fields, and as history the bus
                    \* transactions it has made and the close calls its bus handle has had
    sup             \* main()'s shutdown: its place in the list of processes, and as
                    \* history what ended the loop and the workers it has sent
                    \* terminate() and kill() to

vars == <<shared, lock, now, pc, ret, arg, current_dict, data, keysLeft,
          seqLast, snapSeq, interleaved, lastWritten,
          consecutive_errors, pm_success, failedSince, outcome, http, driver, sup>>

(***************************************************************************)
(* Bounds of the model.                                                    *)
(***************************************************************************)
MaxVal == 1        \* sensor samples are 1..MaxVal
MaxTime == 1       \* the clock runs 0..MaxTime
MaxErrors == 6     \* a delivery task starts no cycle once consecutive_errors has reached it

Values == 1..MaxVal

(***************************************************************************)
(* Python values.                                                          *)
(***************************************************************************)
None == [py |-> "None"]
EmptyDict == [k \in {} |-> 0]
Free == "free"

\* the dictionary replaced by e instead of updated with it
DictUpdate_Replace(d, e) == e

\* dict.update(e) on d
DictUpdate(d, e) ==
    [k \in DOMAIN d \cup DOMAIN e |-> IF k \in DOMAIN e THEN e[k] ELSE d[k]]

\* d.get(k), default None
DictGet(d, k) == IF k \in DOMAIN d THEN d[k] ELSE None

\* the reader keeps the dictionary itself, not a copy
ProxyCopy_Alias(v) == [live |-> TRUE, val |-> v]

\* what dict(...) of values fetched through the manager proxy holds: they arrive
\* pickled, so the result shares nothing with the dictionary in the manager
ProxyCopy(v) == [live |-> FALSE, val |-> v]

\* the dictionary a reader's local `data` denotes
View(r) == IF data[r].live THEN shared ELSE data[r].val

\* the order dict(proxy) fetches the keys in
KeyOrder == <<"Sensor data", "Service data", "sensor status", "sensnor status", "air">>
FirstKey(ks) == KeyOrder[CHOOSE i \in 1..Len(KeyOrder) :
                    /\ KeyOrder[i] \in ks
                    /\ \A j \in 1..(i - 1) : KeyOrder[j] \notin ks]

\* a status message: its text, and the number formatted into it (0 when none is)
Msg(text, n) == [text |-> text, n |-> n]

Reading(v, unit, description, t) ==
    [value |-> v, unit |-> unit, description |-> description, timestamp |-> t]

(***************************************************************************)
(* Processes.                                                              *)
(***************************************************************************)
SensorWorkers == {"SDS011", "AHT20_BMP280"}
Tasks == {"aircms.online", "sensor_community"}
Procs == SensorWorkers \cup Tasks \cup {"CPU_TEMP", "Main", "flask", "sensors", "air", "ENS160", "BMP280"}

\* where each process starts
StartPc(p) ==
    CASE p \in SensorWorkers \cup {"CPU_TEMP"} -> "get_data"
      [] p = "Main" -> "alive"
      [] p = "flask" -> "idle"
      [] p \in {"sensors", "air"} -> "read_all"
      [] p = "aircms.online" -> "read_bmp280"
      [] p = "sensor_community" -> "sc_read"
      [] p \in {"ENS160", "BMP280"} -> "construct"

\* SDS011.get_data: the dictionary a valid 10-byte frame decodes to
SDS011_get_data(pm25, pm10, t) ==
    [SDS011 |-> [pm25 |-> Reading(pm25, "ug/m3", "PM 2.5", t),
                 pm10 |-> Reading(pm10, "ug/m3", "PM 10", t)]]

\* the families the pressure/humidity worker stores (read by aircms_online.send_data)
AHT20_BMP280_get_data(v, t) ==
    [BMP280 |-> [Temperature |-> Reading(v, "C", "Temperature", t),
                 Pressure |-> Reading(v, "hPa", "Pressure", t)],
     AHT20 |-> [Temperature |-> Reading(v, "C", "Temperature", t),
                Humidity |-> Reading(v, "%", "Humidity", t)]]

\* what one get_data call of worker w can return when the device answers
SensorInputs(w) ==
    IF w = "SDS011"
    THEN {SDS011_get_data(v, v, now) : v \in Values}
    ELSE {AHT20_BMP280_get_data(v, now) : v \in Values}

\* no request has been made
NoHttp == [requests |-> <<>>, success |-> FALSE]

InitShared == [k \in {"Sensor data", "Service data"} |-> EmptyDict]

\* the state in which the processes of S start, each p at start[p], with
\* 'Sensor data' as sd
StartedAt(S, sd, start) ==
    /\ shared = [InitShared EXCEPT !["Sensor data"] = sd]
    /\ lock = Free
    /\ now = 0
    /\ pc = [p \in Procs |-> IF p \in S THEN start[p] ELSE "off"]
    /\ ret = [p \in Procs |-> "none"]
    /\ arg = [p \in Procs |-> None]
    /\ current_dict = [p \in Procs |-> None]
    /\ data = [p \in Procs |-> ProxyCopy(EmptyDict)]
    /\ keysLeft = [p \in Procs |-> {}]
    /\ seqLast = sd
    /\ snapSeq = [p \in Procs |-> EmptyDict]
    /\ interleaved = {}
    /\ lastWritten = [p \in Procs |-> EmptyDict]
    /\ consecutive_errors = [t \in Tasks |-> 0]
    /\ pm_success = FALSE
    /\ failedSince = [t \in Tasks |-> [cycles |-> 0, posts |-> 0]]
    /\ outcome = [t \in Tasks |-> "none"]
    /\ http = [t \in Tasks |-> NoHttp]
    /\ driver = [p \in Procs |-> None]
    /\ sup = [i |-> 1, cause |-> "none", terminate |-> {}, kill |-> {}]

\* the processes of S in their loops, the drivers they use constructed
StartedWith(S, sd) == StartedAt(S, sd, [p \in Procs |-> StartPc(p)])

\* the state once main() has built the dictionary and the lock (lines 64-73)
\* and the processes of S have been started
Started(S) == StartedWith(S, EmptyDict)

Init == Started(Procs)

hist == <<seqLast, snapSeq, interleaved, lastWritten>>
task == <<consecutive_errors, pm_success, failedSince, outcome, http>>
hw == <<driver, sup>>

\* time passes
Tick ==
    /\ now < MaxTime
    /\ now' = now + 1
    /\ UNCHANGED <<hw, shared, lock, pc, ret, arg, current_dict, data, keysLeft, hist, task>>

(***************************************************************************)
(* update_shared_dict.py                                                   *)
(* Entering the with block is folded into the call's first access to the   *)
(* dictionary, leaving it into its last.                                   *)
(***************************************************************************)
\* the readers that have fetched part of what they read from 'Sensor data'
MidRead == {r \in Procs : pc[r] \in {"read_sds011", "read_aht20"}}

\* a lock that is not the manager's: entering it excludes nobody
LockAcquire_Unshared(p) ==
    lock' = lock

\* `with lock:` entered
LockAcquire(p) ==
    /\ lock = Free
    /\ lock' = p

\* a with block that is left with the lock still held
LockRelease_Kept(p) ==
    lock' = lock

\* `with lock:` left
LockRelease(p) ==
    lock' = IF lock = p THEN Free ELSE lock

\* lines 5-7
update_sensor_data_copy(p) ==
    /\ pc[p] = "usd_copy"
    /\ LockAcquire(p)
    /\ current_dict' = [current_dict EXCEPT ![p] = DictUpdate(shared["Sensor data"], arg[p])]
    /\ seqLast' = DictUpdate(seqLast, arg[p])
    /\ pc' = [pc EXCEPT ![p] = "usd_store"]
    /\ UNCHANGED <<hw, shared, now, ret, arg, data, keysLeft, snapSeq, interleaved, lastWritten, task>>

\* line 8, and the return
update_sensor_data_store(p) ==
    /\ pc[p] = "usd_store"
    /\ shared' = [shared EXCEPT !["Sensor data"] = current_dict[p]]
    /\ LockRelease(p)
    /\ interleaved' = interleaved \cup MidRead
    /\ lastWritten' = [lastWritten EXCEPT ![p] = DictUpdate(@, ("Sensor data" :> arg[p]))]
    /\ current_dict' = [current_dict EXCEPT ![p] = None]
    /\ pc' = [pc EXCEPT ![p] = ret[p]]
    /\ UNCHANGED <<hw, now, ret, arg, data, keysLeft, seqLast, snapSeq, task>>

update_sensor_data(p) ==
    \/ update_sensor_data_copy(p)
    \/ update_sensor_data_store(p)

\* the entry built with a timestamp taken once, at start-up
StatusEntry_StaleTime(a, t) == (a.process_name :> [message |-> a.message, timestamp |-> 0])

\* the entry lines 14-19 build
StatusEntry(a, t) == (a.process_name :> [message |-> a.message, timestamp |-> t])

\* lines 12-19
update_service_status_copy(p) ==
    /\ pc[p] = "uss_copy"
    /\ LockAcquire(p)
    /\ current_dict' = [current_dict EXCEPT ![p] =
                            DictUpdate(shared["Service data"], StatusEntry(arg[p], now))]
    /\ pc' = [pc EXCEPT ![p] = "uss_store"]
    /\ UNCHANGED <<hw, shared, now, ret, arg, data, keysLeft, hist, task>>

\* line 20, and the return
update_service_status_store(p) ==
    /\ pc[p] = "uss_store"
    /\ shared' = [shared EXCEPT !["Service data"] = current_dict[p]]
    /\ LockRelease(p)
    /\ lastWritten' = [lastWritten EXCEPT ![p] = DictUpdate(@, ("Service data" :>
            (arg[p].process_name :> current_dict[p][arg[p].process_name])))]
    /\ current_dict' = [current_dict EXCEPT ![p] = None]
    /\ arg' = [arg EXCEPT ![p] = None]
    /\ pc' = [pc EXCEPT ![p] = ret[p]]
    /\ UNCHANGED <<hw, now, ret, data, keysLeft, seqLast, snapSeq, interleaved, task>>

update_service_status(p) ==
    \/ update_service_status_copy(p)
    \/ update_service_status_store(p)

(***************************************************************************)
(* sensors/sds011.py start_process (lines 60-75); the pressure/humidity    *)
(* worker main.py starts has the same loop.                                *)
(***************************************************************************)
\* lines 69-72: one serial read; a frame that does not decode gives None
start_process_get_data(w) ==
    /\ pc[w] = "get_data"
    /\ \/ /\ \E d \in SensorInputs(w) : arg' = [arg EXCEPT ![w] = d]
          /\ ret' = [ret EXCEPT ![w] = "status"]
          /\ pc' = [pc EXCEPT ![w] = "usd_copy"]
       \/ /\ pc' = [pc EXCEPT ![w] = "sleep"]
          /\ UNCHANGED <<arg, ret, task>>
    /\ UNCHANGED <<hw, shared, lock, now, current_dict, data, keysLeft, hist, task>>

\* line 73
start_process_status(w) ==
    /\ pc[w] = "status"
    /\ arg' = [arg EXCEPT ![w] = [process_name |-> w, message |-> Msg("OK", 0)]]
    /\ ret' = [ret EXCEPT ![w] = "sleep"]
    /\ pc' = [pc EXCEPT ![w] = "uss_copy"]
    /\ UNCHANGED <<hw, shared, lock, now, current_dict, data, keysLeft, hist, task>>

\* line 75
start_process_sleep(w) ==
    /\ pc[w] = "sleep"
    /\ pc' = [pc EXCEPT ![w] = "get_data"]
    /\ UNCHANGED <<hw, shared, lock, now, ret, arg, current_dict, data, keysLeft, hist, task>>

start_process(w) ==
    \/ start_process_get_data(w)
    \/ start_process_status(w)
    \/ start_process_sleep(w)
    \/ update_sensor_data(w)
    \/ update_service_status(w)

(***************************************************************************)
(* sensors/cpu_temperature.py start_process (lines 34-46)                  *)
(***************************************************************************)
\* CPUTemp.get_data (lines 17-32): the rounded temperature; None when the
\* thermal zone file does not exist (the function ends without a return); the
\* exception object itself when reading or parsing raised (line 32, `return e`)
CPUTemp_get_data ==
    {Msg("CPU_temp", t) : t \in Values}
        \cup {Msg("CPU_temp None", 0), Msg("CPU_temp exception", 0)}

\* lines 43-44: whatever get_data returned is formatted into the message and stored
cpu_start_process_get_data ==
    /\ pc["CPU_TEMP"] = "get_data"
    /\ \E temp_c \in CPUTemp_get_data :
         arg' = [arg EXCEPT !["CPU_TEMP"] =
                    [process_name |-> "CPU_TEMP", message |-> temp_c]]
    /\ ret' = [ret EXCEPT !["CPU_TEMP"] = "sleep"]
    /\ pc' = [pc EXCEPT !["CPU_TEMP"] = "uss_copy"]
    /\ UNCHANGED <<hw, shared, lock, now, current_dict, data, keysLeft, hist, task>>

\* line 46
cpu_start_process_sleep ==
    /\ pc["CPU_TEMP"] = "sleep"
    /\ pc' = [pc EXCEPT !["CPU_TEMP"] = "get_data"]
    /\ UNCHANGED <<hw, shared, lock, now, ret, arg, current_dict, data, keysLeft, hist, task>>

cpu_start_process ==
    \/ cpu_start_process_get_data
    \/ cpu_start_process_sleep
    \/ update_service_status("CPU_TEMP")

(***************************************************************************)
(* webfront/flaskweb.py api_data (lines 936-945); index (861-868) and      *)
(* api_health (948-954) take their copy the same way.                      *)
(***************************************************************************)
\* lines 942-943: the with block is entered and dict() asks the proxy for its keys
api_data_keys ==
    /\ pc["flask"] = "idle"
    /\ DOMAIN shared # {}
    /\ LockAcquire("flask")
    /\ keysLeft' = [keysLeft EXCEPT !["flask"] = DOMAIN shared]
    /\ data' = [data EXCEPT !["flask"] = ProxyCopy(EmptyDict)]
    /\ pc' = [pc EXCEPT !["flask"] = "copying"]
    /\ UNCHANGED <<hw, shared, now, ret, arg, current_dict, hist, task>>

\* line 943: dict() fetches one key's value; after the last the with block is left
api_data_getitem ==
    /\ pc["flask"] = "copying"
    /\ LET k == FirstKey(keysLeft["flask"])
           last == keysLeft["flask"] = {k}
       IN /\ data' = [data EXCEPT !["flask"] = ProxyCopy(DictUpdate(@.val, (k :> shared[k])))]
          /\ keysLeft' = [keysLeft EXCEPT !["flask"] = @ \ {k}]
          /\ snapSeq' = IF k = "Sensor data" THEN [snapSeq EXCEPT !["flask"] = seqLast]
                        ELSE snapSeq
          /\ IF last THEN LockRelease("flask") ELSE UNCHANGED lock
          /\ pc' = [pc EXCEPT !["flask"] = IF last THEN "have" ELSE "copying"]
    /\ UNCHANGED <<hw, shared, now, ret, arg, current_dict, seqLast, interleaved, lastWritten, task>>

\* line 945: the copy is rendered and dropped
api_data_return ==
    /\ pc["flask"] = "have"
    /\ data' = [data EXCEPT !["flask"] = ProxyCopy(EmptyDict)]
    /\ snapSeq' = [snapSeq EXCEPT !["flask"] = EmptyDict]
    /\ pc' = [pc EXCEPT !["flask"] = "idle"]
    /\ UNCHANGED <<hw, shared, lock, now, ret, arg, current_dict, keysLeft, seqLast, interleaved, lastWritten, task>>

api_data ==
    \/ api_data_keys
    \/ api_data_getitem
    \/ api_data_return

(***************************************************************************)
(* main.py main: the supervision loop (lines 162-169)                      *)
(***************************************************************************)
\* lines 166-167: the number of live workers goes into the message
main_alive ==
    /\ pc["Main"] = "alive"
    /\ \E n \in Values :
         arg' = [arg EXCEPT !["Main"] =
                    [process_name |-> "Main", message |-> Msg("Rabotaet processov", n)]]
    /\ ret' = [ret EXCEPT !["Main"] = "sleep"]
    /\ pc' = [pc EXCEPT !["Main"] = "uss_copy"]
    /\ UNCHANGED <<hw, shared, lock, now, current_dict, data, keysLeft, hist, task>>

\* line 169
main_sleep ==
    /\ pc["Main"] = "sleep"
    /\ pc' = [pc EXCEPT !["Main"] = "alive"]
    /\ UNCHANGED <<hw, shared, lock, now, ret, arg, current_dict, data, keysLeft, hist, task>>

main ==
    \/ main_alive
    \/ main_sleep
    \/ update_service_status("Main")

(***************************************************************************)
(* sensors/sensor_manager.py: Sensors.read_all and get_sensors_data        *)
(***************************************************************************)
\* ENS160.get_data (sensors/ens160.py lines 75-80): a flat dictionary
ENS160_get_data(v) == [aqi |-> v, tvoc |-> v, eco2 |-> v, status |-> v]

\* Sensors.read_all (lines 44-90) when the CPU read gives nothing
read_all(sds_data, ens_data, t) ==
    [k \in {"Sensor data", "Service data"} |->
        IF k = "Sensor data"
        THEN DictUpdate(IF sds_data = None THEN EmptyDict ELSE sds_data,
                        IF ens_data = None THEN EmptyDict ELSE ens_data)
        ELSE [timestamp |-> t]]

\* line 110: the sensors are read; a CPU temperature that is a number makes
\* line 85 (dict.update of a float) raise, and the loop is left
get_sensors_data_read_all ==
    /\ pc["sensors"] = "read_all"
    /\ \E sds_data \in SensorInputs("SDS011") \cup {None},
          ens_data \in {ENS160_get_data(v) : v \in Values} \cup {None},
          cpu_data \in {TRUE, FALSE} :
         IF cpu_data
         THEN /\ pc' = [pc EXCEPT !["sensors"] = "except"]
              /\ arg' = arg
         ELSE /\ pc' = [pc EXCEPT !["sensors"] = "update"]
              /\ arg' = [arg EXCEPT !["sensors"] = read_all(sds_data, ens_data, now)]
    /\ UNCHANGED <<hw, shared, lock, now, ret, current_dict, data, keysLeft, hist, task>>

\* lines 113-114: shared_dict.update(data) puts data's two namespaces in place
get_sensors_data_update ==
    /\ pc["sensors"] = "update"
    /\ LockAcquire("sensors")
    /\ shared' = DictUpdate(shared, arg["sensors"])
    /\ seqLast' = arg["sensors"]["Sensor data"]
    /\ interleaved' = interleaved \cup MidRead
    /\ pc' = [pc EXCEPT !["sensors"] = "set_status"]
    /\ UNCHANGED <<hw, now, ret, arg, current_dict, data, keysLeft, snapSeq, lastWritten, task>>

\* lines 115-119, and the with block is left
get_sensors_data_status ==
    /\ pc["sensors"] = "set_status"
    /\ shared' = DictUpdate(shared, ("sensor status" :>
                    [status |-> "OK", text |-> "Sensory rabotayut shtatno", timestamp |-> now]))
    /\ LockRelease("sensors")
    /\ arg' = [arg EXCEPT !["sensors"] = None]
    /\ pc' = [pc EXCEPT !["sensors"] = "sleep"]
    /\ UNCHANGED <<hw, now, ret, current_dict, data, keysLeft, hist, task>>

\* line 122
get_sensors_data_sleep ==
    /\ pc["sensors"] = "sleep"
    /\ pc' = [pc EXCEPT !["sensors"] = "read_all"]
    /\ UNCHANGED <<hw, shared, lock, now, ret, arg, current_dict, data, keysLeft, hist, task>>

\* lines 126-133: the handler stores its entry under the key it spells 'sensnor status'
get_sensors_data_except ==
    /\ pc["sensors"] = "except"
    /\ lock = Free
    /\ shared' = DictUpdate(shared, ("sensnor status" :>
                    [status |-> "Error", text |-> "str(e)", timestamp |-> now]))
    /\ pc' = [pc EXCEPT !["sensors"] = "done"]
    /\ UNCHANGED <<hw, lock, now, ret, arg, current_dict, data, keysLeft, hist, task>>

get_sensors_data ==
    \/ get_sensors_data_read_all
    \/ get_sensors_data_update
    \/ get_sensors_data_status
    \/ get_sensors_data_sleep
    \/ get_sensors_data_except

(***************************************************************************)
(* senders/aircms_online.py                                                *)
(***************************************************************************)
\* send_data_to_doiot (lines 37-99): what it returns for the outcome of the POST;
\* 0 stands for a request that raised
HttpResults == {200, 201, 500, 0}

\* a POST that any 2xx answer makes a success
send_data_to_doiot_Any2xx(status) == status \in {200, 201}

send_data_to_doiot(status) == status = 200

\* strings are sequences of pieces
Lit(s) == <<[lit |-> s]>>

\* str(round(x, 2)) (lines 133-149)
StrRound2(x) == <<[str |-> x, round |-> 2]>>

\* json.dumps(data_json, separators=(',', ':')) (line 43)
JsonDumps(d) == <<[json |-> d]>>

\* str(int(time.time())) (line 48)
StrInt(t) == <<[str |-> t]>>

\* hashlib.sha1(x.encode('utf-8')).hexdigest()
SHA1(x) == <<[sha1 |-> x]>>

\* lines 129-152: the payload built from the three families read
sensor_data(d) ==
    [sensordatavalues |->
        <<[value_type |-> "BME280_temperature", value |-> StrRound2(d.bmp280.Temperature.value)],
          [value_type |-> "BME280_humidity", value |-> StrRound2(d.aht20.Humidity.value)],
          [value_type |-> "BME280_pressure", value |-> StrRound2(d.bmp280.Pressure.value)],
          [value_type |-> "SDS_P1", value |-> StrRound2(d.sds011.pm10.value)],
          [value_type |-> "SDS_P2", value |-> StrRound2(d.sds011.pm25.value)]>>]

\* lines 15-16
CHIP_ID == Lit("5006471")
MAC_ADDR == Lit("02:42:39:D2:02:B6")

\* a signature whose inner round leaves the token out
hmac1_NoToken(our_data, token) ==
    SHA1(SHA1(token) \o SHA1(our_data))

\* lines 60-71: the signature of our_data under token
hmac1(our_data, token) ==
    LET hmac_message == our_data \o token
        sha1_of_message == SHA1(hmac_message)
        token_sha1_hex == SHA1(token)
        final_input == token_sha1_hex \o sha1_of_message
    IN SHA1(final_input)

\* lines 42-85: the request send_data_to_doiot makes at time t
doiot_request(data_json, esp_chipid, mac_address, t, status) ==
    LET data_json_str == JsonDumps(data_json)
        timestamp == StrInt(t)
        login == esp_chipid
        token == mac_address
        our_data == Lit("L=") \o login \o Lit("&t=") \o timestamp \o Lit("&airrohr=") \o data_json_str
    IN [url |-> Lit("https://doiot.ru") \o Lit("/php/sensors.php") \o Lit("?h=") \o hmac1(our_data, token),
        body |-> our_data,
        status |-> status]

\* a cycle of a delivery task has ended
CycleEnd(t, how) ==
    /\ outcome' = [outcome EXCEPT ![t] = how]
    /\ failedSince' = [failedSince EXCEPT ![t] =
                          CASE how = "ok" -> [cycles |-> 0, posts |-> 0]
                            [] how = "fail" -> [cycles |-> @.cycles + 1, posts |-> @.posts + 1]
                            [] how = "exc" -> [cycles |-> @.cycles + 1, posts |-> 0]
                            [] OTHER -> [cycles |-> @.cycles, posts |-> 0]]

\* line 112: shared_dict['Sensor data'] is fetched, without the lock
send_data_read_bmp280 ==
    /\ pc["aircms.online"] = "read_bmp280"
    /\ consecutive_errors["aircms.online"] < MaxErrors
    /\ data' = [data EXCEPT !["aircms.online"] =
                   ProxyCopy([bmp280 |-> DictGet(shared["Sensor data"], "BMP280"),
                              sds011 |-> None, aht20 |-> None])]
    /\ interleaved' = interleaved \ {"aircms.online"}
    /\ pc' = [pc EXCEPT !["aircms.online"] = "read_sds011"]
    /\ UNCHANGED <<hw, shared, lock, now, ret, arg, current_dict, keysLeft,
                   seqLast, snapSeq, lastWritten, task>>

\* line 113: fetched again
send_data_read_sds011 ==
    /\ pc["aircms.online"] = "read_sds011"
    /\ data' = [data EXCEPT !["aircms.online"] =
                   ProxyCopy([@.val EXCEPT !.sds011 = DictGet(shared["Sensor data"], "SDS011")])]
    /\ pc' = [pc EXCEPT !["aircms.online"] = "read_aht20"]
    /\ UNCHANGED <<hw, shared, lock, now, ret, arg, current_dict, keysLeft, hist, task>>

\* line 114: fetched a third time
send_data_read_aht20 ==
    /\ pc["aircms.online"] = "read_aht20"
    /\ data' = [data EXCEPT !["aircms.online"] =
                   ProxyCopy([@.val EXCEPT !.aht20 = DictGet(shared["Sensor data"], "AHT20")])]
    /\ pc' = [pc EXCEPT !["aircms.online"] = "check"]
    /\ UNCHANGED <<hw, shared, lock, now, ret, arg, current_dict, keysLeft, hist, task>>

\* lines 118-152 and 163-164: subscripting aht20_data when it is None raises
send_data_check ==
    /\ pc["aircms.online"] = "check"
    /\ LET d == data["aircms.online"].val IN
       IF d.bmp280 # None /\ d.sds011 # None
       THEN /\ pc' = [pc EXCEPT !["aircms.online"] = IF d.aht20 = None THEN "except" ELSE "post"]
            /\ UNCHANGED <<arg, ret, outcome, failedSince>>
       ELSE /\ arg' = [arg EXCEPT !["aircms.online"] =
                          [process_name |-> "aircms.online",
                           message |-> Msg("Net dannyh dlya otpravki", 0)]]
            /\ ret' = [ret EXCEPT !["aircms.online"] = "sleep"]
            /\ pc' = [pc EXCEPT !["aircms.online"] = "uss_copy"]
            /\ CycleEnd("aircms.online", "nodata")
    /\ UNCHANGED <<hw, shared, lock, now, current_dict, data, keysLeft, hist,
                   consecutive_errors, pm_success, http>>

\* lines 155-162: on success the status is set; on failure the counter is
\* incremented and line 161 (logger.warning.error) raises AttributeError
send_data_post ==
    /\ pc["aircms.online"] = "post"
    /\ \E status \in HttpResults :
         /\ http' = [http EXCEPT !["aircms.online"] =
                        [requests |-> <<doiot_request(sensor_data(data["aircms.online"].val),
                                                      CHIP_ID, MAC_ADDR, now, status)>>,
                         success |-> send_data_to_doiot(status)]]
         /\ IF send_data_to_doiot(status)
            THEN /\ arg' = [arg EXCEPT !["aircms.online"] =
                               [process_name |-> "aircms.online", message |-> Msg("OK", 0)]]
                 /\ ret' = [ret EXCEPT !["aircms.online"] = "sleep"]
                 /\ pc' = [pc EXCEPT !["aircms.online"] = "uss_copy"]
                 /\ CycleEnd("aircms.online", "ok")
                 /\ UNCHANGED consecutive_errors
            ELSE /\ consecutive_errors' = [consecutive_errors EXCEPT !["aircms.online"] = @ + 1]
                 /\ pc' = [pc EXCEPT !["aircms.online"] = "except"]
                 /\ outcome' = [outcome EXCEPT !["aircms.online"] = "posting"]
                 /\ UNCHANGED <<arg, ret, failedSince>>
    /\ UNCHANGED <<hw, shared, lock, now, current_dict, data, keysLeft, hist, pm_success>>

\* lines 171-173
send_data_except ==
    /\ pc["aircms.online"] = "except"
    /\ consecutive_errors' = [consecutive_errors EXCEPT !["aircms.online"] = @ + 1]
    /\ arg' = [arg EXCEPT !["aircms.online"] =
                  [process_name |-> "aircms.online",
                   message |-> Msg("Oshibka", consecutive_errors'["aircms.online"])]]
    /\ ret' = [ret EXCEPT !["aircms.online"] = "backoff"]
    /\ pc' = [pc EXCEPT !["aircms.online"] = "uss_copy"]
    /\ CycleEnd("aircms.online", IF outcome["aircms.online"] = "posting" THEN "fail" ELSE "exc")
    /\ UNCHANGED <<hw, shared, lock, now, current_dict, data, keysLeft, hist, pm_success, http>>

\* a task that leaves its loop after the sleep that follows an exception
send_data_sleep_Break ==
    /\ pc["aircms.online"] \in {"sleep", "backoff"}
    /\ data' = [data EXCEPT !["aircms.online"] = ProxyCopy(EmptyDict)]
    /\ http' = [http EXCEPT !["aircms.online"] = NoHttp]
    /\ pc' = [pc EXCEPT !["aircms.online"] = IF @ = "backoff" THEN "done" ELSE "read_bmp280"]
    /\ UNCHANGED <<hw, shared, lock, now, ret, arg, current_dict, keysLeft, hist,
                   consecutive_errors, pm_success, failedSince, outcome>>

\* line 166 (sleep) and line 174 (backoff)
send_data_sleep ==
    /\ pc["aircms.online"] \in {"sleep", "backoff"}
    /\ data' = [data EXCEPT !["aircms.online"] = ProxyCopy(EmptyDict)]
    /\ http' = [http EXCEPT !["aircms.online"] = NoHttp]
    /\ pc' = [pc EXCEPT !["aircms.online"] = "read_bmp280"]
    /\ UNCHANGED <<hw, shared, lock, now, ret, arg, current_dict, keysLeft, hist,
                   consecutive_errors, pm_success, failedSince, outcome>>

send_data ==
    \/ send_data_read_bmp280
    \/ send_data_read_sds011
    \/ send_data_read_aht20
    \/ send_data_check
    \/ send_data_post
    \/ send_data_except
    \/ send_data_sleep
    \/ update_service_status("aircms.online")

(***************************************************************************)
(* air/sensor.py get_air_sensor (lines 251-291)                            *)
(***************************************************************************)
\* AirSensor.read_all (lines 228-240): a sensor that gave nothing leaves None
Float(v) == [py |-> "float", v |-> v]

AirReadings ==
    {[timestamp |-> now,
      temperature |-> IF bmp THEN Float(v) ELSE None,
      pressure |-> IF bmp THEN Float(v) ELSE None,
      pm25 |-> IF sds THEN Float(v) ELSE None,
      pm10 |-> IF sds THEN Float(v) ELSE None,
      cpu_temp |-> Float(v), status |-> "ok"] :
        v \in Values, bmp \in BOOLEAN, sds \in BOOLEAN}

\* line 260
get_air_sensor_read_all ==
    /\ pc["air"] = "read_all"
    /\ \E d \in AirReadings : arg' = [arg EXCEPT !["air"] = d]
    /\ pc' = [pc EXCEPT !["air"] = "update"]
    /\ UNCHANGED <<hw, shared, lock, now, ret, current_dict, data, keysLeft, hist, task>>

\* lines 263-274
get_air_sensor_update ==
    /\ pc["air"] = "update"
    /\ LockAcquire("air")
    /\ shared' = DictUpdate(shared, ("air" :> arg["air"]))
    /\ pc' = [pc EXCEPT !["air"] = "unlock"]
    /\ UNCHANGED <<hw, now, ret, arg, current_dict, data, keysLeft, hist, task>>

\* the with block is left
get_air_sensor_unlock ==
    /\ pc["air"] = "unlock"
    /\ LockRelease("air")
    /\ arg' = [arg EXCEPT !["air"] = None]
    /\ pc' = [pc EXCEPT !["air"] = "sleep"]
    /\ UNCHANGED <<hw, shared, now, ret, current_dict, data, keysLeft, hist, task>>

\* line 291
get_air_sensor_sleep ==
    /\ pc["air"] = "sleep"
    /\ pc' = [pc EXCEPT !["air"] = "read_all"]
    /\ UNCHANGED <<hw, shared, lock, now, ret, arg, current_dict, data, keysLeft, hist, task>>

get_air_sensor ==
    \/ get_air_sensor_read_all
    \/ get_air_sensor_update
    \/ get_air_sensor_unlock
    \/ get_air_sensor_sleep

(***************************************************************************)
(* senders/sensor_community.py                                             *)
(***************************************************************************)
\* send_sensor_data (lines 28-40) for the outcome of its POST
send_sensor_data(status) == status \in {200, 201}

\* lines 102-103: the with block is entered and shared_dict.get('air', {}) fetched
sc_send_data_read ==
    /\ pc["sensor_community"] = "sc_read"
    /\ consecutive_errors["sensor_community"] < MaxErrors
    /\ LockAcquire("sensor_community")
    /\ data' = [data EXCEPT !["sensor_community"] =
                   ProxyCopy(IF "air" \in DOMAIN shared THEN shared["air"] ELSE EmptyDict)]
    /\ pc' = [pc EXCEPT !["sensor_community"] = "sc_unlock"]
    /\ UNCHANGED <<hw, shared, now, ret, arg, current_dict, keysLeft, hist, task>>

\* f"{x:.2f}", f"{x:.0f}"
Format(x, spec) == <<[format |-> spec, of |-> x]>>

\* lines 15-16
API_URL_SENSOR == Lit("https://api.sensor.community/v1/push-sensor-data/")
API_URL_MADAVI == Lit("https://api-rrd.madavi.de/data.php")

\* lines 48-54: the sensordatavalues of push_sds011
push_sds011_values(pm10, pm25) ==
    <<[value_type |-> "P1", value |-> Format(pm10.v, ".2f")],
      [value_type |-> "P2", value |-> Format(pm25.v, ".2f")]>>

\* lines 69-79: the sensordatavalues of push_bme280, called without humidity
push_bme280_values(temperature, pressure) ==
    <<[value_type |-> "temperature", value |-> Format(temperature.v, ".2f")]>>
    \o (IF pressure # None
        THEN <<[value_type |-> "pressure", value |-> Format(pressure.v * 100, ".0f")]>>
        ELSE << >>)

\* a push that leaves the second endpoint out once the first has accepted
push_FirstAccepted(pin, values, s1, s2) ==
    [requests |-> <<[url |-> API_URL_SENSOR, pin |-> pin, values |-> values, status |-> s1]>>
                  \o (IF send_sensor_data(s1) THEN << >>
                      ELSE <<[url |-> API_URL_MADAVI, pin |-> pin, values |-> values, status |-> s2]>>),
     success |-> send_sensor_data(s1) \/ send_sensor_data(s2)]

\* lines 58-60 and 86-88: both endpoints are posted to, answered s1 and s2
push(pin, values, s1, s2) ==
    LET success1 == send_sensor_data(s1)
        success2 == send_sensor_data(s2)
    IN [requests |-> <<[url |-> API_URL_SENSOR, pin |-> pin, values |-> values, status |-> s1],
                       [url |-> API_URL_MADAVI, pin |-> pin, values |-> values, status |-> s2]>>,
        success |-> success1 \/ success2]

\* the with block is left; lines 106-114: without valid data the task waits,
\* otherwise it sends (last_send is at least SEND_INTERVAL old in every cycle:
\* it is 0 at first, and line 137 has slept since it was set)
sc_send_data_unlock ==
    /\ pc["sensor_community"] = "sc_unlock"
    /\ LockRelease("sensor_community")
    /\ LET air_data == data["sensor_community"].val IN
       IF air_data = EmptyDict \/ DictGet(air_data, "status") # "ok"
       THEN /\ pc' = [pc EXCEPT !["sensor_community"] = "sc_sleep10"]
            /\ CycleEnd("sensor_community", "nodata")
       ELSE /\ pc' = [pc EXCEPT !["sensor_community"] = "sc_push_pm"]
            /\ UNCHANGED <<outcome, failedSince>>
    /\ UNCHANGED <<hw, shared, now, ret, arg, current_dict, data, keysLeft, hist,
                   consecutive_errors, pm_success, http>>

\* line 123, push_sds011 (lines 42-60): formatting None with .2f raises
sc_send_data_push_pm ==
    /\ pc["sensor_community"] = "sc_push_pm"
    /\ LET air_data == data["sensor_community"].val IN
       IF air_data.pm10 = None \/ air_data.pm25 = None
       THEN /\ pc' = [pc EXCEPT !["sensor_community"] = "sc_except"]
            /\ UNCHANGED <<pm_success, http>>
       ELSE /\ \E s1, s2 \in HttpResults :
                 LET r == push(1, push_sds011_values(air_data.pm10, air_data.pm25), s1, s2) IN
                 /\ http' = [http EXCEPT !["sensor_community"] = r]
                 /\ pm_success' = r.success
            /\ pc' = [pc EXCEPT !["sensor_community"] = "sc_push_climate"]
    /\ UNCHANGED <<hw, shared, lock, now, ret, arg, current_dict, data, keysLeft, hist,
                   consecutive_errors, failedSince, outcome>>

\* lines 126-134, push_bme280 (lines 62-88)
sc_send_data_push_climate ==
    /\ pc["sensor_community"] = "sc_push_climate"
    /\ LET air_data == data["sensor_community"].val IN
       IF air_data.temperature = None
       THEN /\ pc' = [pc EXCEPT !["sensor_community"] = "sc_except"]
            /\ UNCHANGED <<consecutive_errors, outcome, failedSince, http>>
       ELSE /\ \E s1, s2 \in HttpResults :
                 LET r == push(11, push_bme280_values(air_data.temperature, air_data.pressure), s1, s2)
                     climate_success == r.success
                 IN /\ http' = [http EXCEPT !["sensor_community"] = r]
                    /\ IF pm_success \/ climate_success
                       THEN /\ consecutive_errors' = [consecutive_errors EXCEPT !["sensor_community"] = 0]
                            /\ CycleEnd("sensor_community", "ok")
                       ELSE /\ consecutive_errors' = [consecutive_errors EXCEPT !["sensor_community"] = @ + 1]
                            /\ CycleEnd("sensor_community", "fail")
            /\ pc' = [pc EXCEPT !["sensor_community"] = "sc_sleep"]
    /\ pm_success' = FALSE
    /\ UNCHANGED <<hw, shared, lock, now, ret, arg, current_dict, data, keysLeft, hist>>

\* lines 142-144
sc_send_data_except ==
    /\ pc["sensor_community"] = "sc_except"
    /\ consecutive_errors' = [consecutive_errors EXCEPT !["sensor_community"] = @ + 1]
    /\ CycleEnd("sensor_community", "exc")
    /\ pm_success' = FALSE
    /\ pc' = [pc EXCEPT !["sensor_community"] = "sc_backoff"]
    /\ UNCHANGED <<hw, shared, lock, now, ret, arg, current_dict, data, keysLeft, hist, http>>

\* lines 108 (sc_sleep10), 137 (sc_sleep) and 145 (sc_backoff)
sc_send_data_sleep ==
    /\ pc["sensor_community"] \in {"sc_sleep10", "sc_sleep", "sc_backoff"}
    /\ data' = [data EXCEPT !["sensor_community"] = ProxyCopy(EmptyDict)]
    /\ http' = [http EXCEPT !["sensor_community"] = NoHttp]
    /\ pc' = [pc EXCEPT !["sensor_community"] = "sc_read"]
    /\ UNCHANGED <<hw, shared, lock, now, ret, arg, current_dict, keysLeft, hist,
                   consecutive_errors, pm_success, failedSince, outcome>>

sc_send_data ==
    \/ sc_send_data_read
    \/ sc_send_data_unlock
    \/ sc_send_data_push_pm
    \/ sc_send_data_push_climate
    \/ sc_send_data_except
    \/ sc_send_data_sleep

Next ==
    \/ Tick
    \/ \E w \in SensorWorkers : start_process(w)
    \/ api_data

Spec == Init /\ [][Next]_vars

\* the aggregate sensor process beside the workers that only write their status
NextAgg ==
    \/ Tick
    \/ get_sensors_data
    \/ cpu_start_process
    \/ main

SpecAgg == Init /\ [][NextAgg]_vars

\* the signed delivery task beside the sensor workers it takes its data from
NextAir ==
    \/ Tick
    \/ \E w \in SensorWorkers : start_process(w)
    \/ send_data

SpecAir == Init /\ [][NextAir]_vars

\* the process functions that take the lock, in the groups they run in: the
\* workers main() starts, the aggregate sensor process, and the air sensor
\* process with the community delivery task that reads its 'air' entry
Deployments ==
    {{"SDS011", "CPU_TEMP"}, {"sensors", "CPU_TEMP"}, {"air", "sensor_community"}}

InitLock == \E S \in Deployments : Started(S)

NextLock ==
    \/ start_process("SDS011")
    \/ cpu_start_process
    \/ get_sensors_data
    \/ get_air_sensor
    \/ sc_send_data

SpecLock == InitLock /\ [][NextLock]_vars

\* the delivery tasks beside the writers of what they read: the signed task
\* with the sensor workers, the community task with the air sensor process,
\* and the community task with the sensor workers as main() starts them
TaskDeployments ==
    {{"SDS011", "AHT20_BMP280", "aircms.online"},
     {"air", "sensor_community"},
     {"SDS011", "AHT20_BMP280", "sensor_community"}}

InitTasks == \E S \in TaskDeployments : Started(S)

NextTasks ==
    \/ \E w \in SensorWorkers : start_process(w)
    \/ send_data
    \/ get_air_sensor
    \/ sc_send_data

SpecTasks == InitTasks /\ [][NextTasks]_vars

\* every process is scheduled again and again
SpecTasksFair ==
    /\ SpecTasks
    /\ \A w \in SensorWorkers : WF_vars(start_process(w))
    /\ WF_vars(send_data)
    /\ WF_vars(get_air_sensor)
    /\ WF_vars(sc_send_data)

\* 'Sensor data' with the families of F in it, each as its sensor's worker stores it
SensorDataOf(F, v) ==
    LET all == DictUpdate(SDS011_get_data(v, v, 0), AHT20_BMP280_get_data(v, 0))
    IN [k \in F |-> all[k]]

\* the signed task starting its loop on the store as the sensor workers have
\* left it: a family is there once its sensor has given a reading
InitCycle ==
    \E F \in SUBSET {"SDS011", "BMP280", "AHT20"} : \E v \in Values :
        StartedWith({"aircms.online"}, SensorDataOf(F, v))

SpecCycle == InitCycle /\ [][send_data]_vars

\* the community task beside the air sensor process
NextCom ==
    \/ get_air_sensor
    \/ sc_send_data

SpecCom == Started({"air", "sensor_community"}) /\ [][NextCom]_vars

(***************************************************************************)
(* The particulate frame: SDS011.get_data (sensors/sds011.py lines 19-58)  *)
(* and AirSensor.read_sds011 (air/sensor.py lines 194-206).                *)
(***************************************************************************)
\* serial.Serial(...) or ser.read raised
SerialException == [raised |-> TRUE, bytes |-> <<>>]

\* what ser.read(10) can give: up to ten bytes, with or without the markers
\* 0xAA, 0xC0 and 0xAB in their places
SerialReads ==
    {[raised |-> FALSE,
      bytes |-> SubSeq(<<b0, b1, lo, hi[1], lo, hi[2], rest, rest, rest, b9>>, 1, n)] :
        b0 \in {170, 0}, b1 \in {192, 0}, b9 \in {171, 0},
        lo \in Values, hi \in {<<0, 1>>, <<1, 0>>}, rest \in {0, 255}, n \in {0, 9, 10}}
    \cup {SerialException}

\* a frame test that leaves the trailer out
frame_valid_NoTrailer(frame) ==
    /\ Len(frame) = 10
    /\ frame[1] = 170
    /\ frame[2] = 192

\* sds011.py lines 31-34: len(data) == 10, data[0] == 0xAA, data[1] == 0xC0, data[9] == 0xAB
frame_valid(frame) ==
    /\ Len(frame) = 10
    /\ frame[1] = 170
    /\ frame[2] = 192
    /\ frame[10] = 171

\* struct.unpack('<H', two bytes)[0] / 10.0, as a number of tenths
unpack_H_tenths(lo, hi) == [py |-> "float", tenths |-> lo + 256 * hi]

\* a decoder that takes PM10 from the two bytes after its field
SDS011_decode_NextField(read, t) ==
    IF ~read.raised /\ frame_valid(read.bytes)
    THEN SDS011_get_data(unpack_H_tenths(read.bytes[3], read.bytes[4]),
                         unpack_H_tenths(read.bytes[7], read.bytes[8]), t)
    ELSE None

\* SDS011.get_data on what the serial port gave
SDS011_decode(read, t) ==
    IF ~read.raised /\ frame_valid(read.bytes)
    THEN SDS011_get_data(unpack_H_tenths(read.bytes[3], read.bytes[4]),
                         unpack_H_tenths(read.bytes[5], read.bytes[6]), t)
    ELSE None

\* AirSensor.read_sds011 on what the serial port gave: (pm25, pm10)
read_sds011(read) ==
    IF ~read.raised /\ frame_valid(read.bytes)
    THEN <<unpack_H_tenths(read.bytes[3], read.bytes[4]),
           unpack_H_tenths(read.bytes[5], read.bytes[6])>>
    ELSE <<None, None>>

\* test/test_air.py read_sds011 (lines 115-126): no trailer test, and each
\* field is the first of the two '<HH' values of a four-byte slice
test_read_sds011(read) ==
    IF ~read.raised /\ Len(read.bytes) = 10 /\ read.bytes[1] = 170 /\ read.bytes[2] = 192
    THEN <<unpack_H_tenths(read.bytes[3], read.bytes[4]),
           unpack_H_tenths(read.bytes[5], read.bytes[6])>>
    ELSE <<None, None>>

\* one call of a decoder by the process that owns the port
decoder_call(p) ==
    /\ pc[p] = StartPc(p)
    /\ \E read \in SerialReads :
         arg' = [arg EXCEPT ![p] =
                    [read |-> read,
                     result |-> IF p = "SDS011" THEN SDS011_decode(read, now) ELSE read_sds011(read)]]
    /\ pc' = [pc EXCEPT ![p] = "decoded"]
    /\ UNCHANGED <<hw, shared, lock, now, ret, current_dict, data, keysLeft, hist, task>>

\* the caller has the result and goes round
decoder_return(p) ==
    /\ pc[p] = "decoded"
    /\ arg' = [arg EXCEPT ![p] = None]
    /\ pc' = [pc EXCEPT ![p] = StartPc(p)]
    /\ UNCHANGED <<hw, shared, lock, now, ret, current_dict, data, keysLeft, hist, task>>

NextDecode ==
    \E p \in {"SDS011", "air"} :
        \/ decoder_call(p)
        \/ decoder_return(p)

SpecDecode == Started({"SDS011", "air"}) /\ [][NextDecode]_vars

(***************************************************************************)
(* The pressure/temperature drivers: BMP280Sensor (sensors/                *)
(* bmp280_sensor.py) and AHT20_BMP280 (sensors/aht20_bmp280.py).  A float  *)
(* is a whole number of thousandths.  The Bosch compensation is not        *)
(* computed: what it gives for a raw value and a calibration is an input,  *)
(* drawn from samples on both sides of every limit the read tests.         *)
(***************************************************************************)
\* the driver a process holds: the pressure/humidity worker an AHT20_BMP280,
\* the gas worker and the sensor manager an ENS160, the dust worker an SDS011;
\* "BMP280" stands for a holder of a BMP280Sensor
DriverClass(p) ==
    IF p = "BMP280" THEN "BMP280Sensor"
    ELSE IF p \in {"ENS160", "sensors"} THEN "ENS160"
    ELSE IF p = "SDS011" THEN "SDS011"
    ELSE IF p = "air" THEN "AirSensor"
    ELSE "AHT20_BMP280"

\* one bus transaction, or a settle delay, as the history keeps it
Xfer(op, reg, val) == [op |-> op, reg |-> reg, val |-> val]

\* bmp280_sensor.py lines 76-88, aht20_bmp280.py lines 49-60: twelve words from 0x88 on
CalibrationReads == [i \in 1..12 |-> Xfer("read", 136 + 2 * (i - 1), 0)]

\* bmp280_sensor.py lines 47-49, aht20_bmp280.py lines 64-66
ModeWrites == <<Xfer("write", 244, 39), Xfer("write", 245, 160), Xfer("sleep", 0, 100)>>

\* a driver object: the bus handle ("none", "open", "closed"), the
\* calibration (loaded or not), and as history the chip ID it read, its
\* transactions and the number of close() calls its handle has had
Driver(class, bus_num, bus, calib, chip_id, log) ==
    [class |-> class, bus_num |-> bus_num, bus |-> bus, calib |-> calib,
     chip_id |-> chip_id, log |-> log, closes |-> 0]

\* the chip ID register 0xD0 answers 0x58 or something else
ChipIds == {88, 96}

\* BMP280Sensor.__init__ (lines 31-56): the chip ID is tested before the mode
\* writes and the calibration; every failure is logged and raised again
BMP280Sensor_init(p) ==
    /\ pc[p] = "construct"
    /\ DriverClass(p) = "BMP280Sensor"
    /\ \E chip_id \in ChipIds, io_ok \in BOOLEAN :
         LET id_read == <<Xfer("read", 208, chip_id)>>
         IN IF chip_id # 88
            THEN /\ driver' = [driver EXCEPT ![p] = Driver("BMP280Sensor", 0, "open", FALSE, chip_id, id_read)]
                 /\ pc' = [pc EXCEPT ![p] = "failed"]
            ELSE IF ~io_ok
            THEN /\ driver' = [driver EXCEPT ![p] =
                        Driver("BMP280Sensor", 0, "open", FALSE, chip_id, id_read \o ModeWrites)]
                 /\ pc' = [pc EXCEPT ![p] = "failed"]
            ELSE /\ driver' = [driver EXCEPT ![p] =
                        Driver("BMP280Sensor", 0, "open", TRUE, chip_id,
                               id_read \o ModeWrites \o CalibrationReads)]
                 /\ pc' = [pc EXCEPT ![p] = "ready"]
    /\ UNCHANGED <<shared, lock, now, ret, arg, current_dict, data, keysLeft, hist, task, sup>>

\* the bus number the pressure/humidity worker gives its driver: the module's
\* configuration (aht20_bmp280.py line 7), as the module's own main() does (line 182)
aht20_bmp280_bus_num == 1

\* AHT20_BMP280.__init__ (lines 14-88): _init_bmp280 reads the chip ID, then
\* the calibration, then writes the mode; its handler logs every failure,
\* the wrong chip ID among them, and leaves bmp280_calib None; _init_aht20
\* follows in either case
AHT20_BMP280_init(p) ==
    /\ pc[p] = "construct"
    /\ DriverClass(p) = "AHT20_BMP280"
    /\ \E chip_id \in ChipIds, io_ok \in BOOLEAN :
         LET id_read == <<Xfer("read", 208, chip_id)>>
             init_aht20 == <<Xfer("write", 225, 0), Xfer("sleep", 0, 10), Xfer("read", 0, 0)>>
             log == IF chip_id # 88 THEN id_read
                    ELSE IF ~io_ok THEN id_read \o SubSeq(CalibrationReads, 1, 3)
                    ELSE id_read \o CalibrationReads \o ModeWrites
         IN driver' = [driver EXCEPT ![p] =
                Driver("AHT20_BMP280", aht20_bmp280_bus_num, "open", chip_id = 88 /\ io_ok, chip_id, log \o init_aht20)]
    /\ pc' = [pc EXCEPT ![p] = "ready"]
    /\ UNCHANGED <<shared, lock, now, ret, arg, current_dict, data, keysLeft, hist, task, sup>>

\* bus.read_i2c_block_data(addr, 0xF7, 6) raised
I2CException == [raised |-> TRUE, bytes |-> <<>>]

\* the three bytes of a 20-bit field: zero, the least that is not, and a usual value
AdcBytes == {<<0, 0, 15>>, <<0, 0, 16>>, <<101, 128, 0>>}

\* what the six-byte read of the data registers can give
DataReads == {[raised |-> FALSE, bytes |-> P \o T] : P \in AdcBytes, T \in AdcBytes} \cup {I2CException}

\* (data[0] << 12) | (data[1] << 4) | (data[2] >> 4)
adc20(b) == b[1] * 4096 + b[2] * 16 + (b[3] \div 16)

\* what the compensation can give: the temperature, the pressure when the
\* divisor var1 is not zero, and whether var1 is zero
Compensations ==
    [temp_C : {-40001, -40000, 85000, 85001},
     p : {299999, 300000, 1100000, 1100001},
     var1_zero : BOOLEAN]

\* _compensate_pressure (bmp280_sensor.py lines 102-127, aht20_bmp280.py
\* lines 99-115): 0.0 when var1 == 0
compensate_pressure(comp) == IF comp.var1_zero THEN 0 ELSE comp.p

\* round(x, 2) of a number of thousandths
round2(x) == ((x + 5) \div 10) * 10

\* a range test that has no lower limit for the pressure
in_range_NoFloor(temp_C, press_hPa) ==
    -40000 <= temp_C /\ temp_C <= 85000 /\ press_hPa <= 1100000

\* bmp280_sensor.py line 153, aht20_bmp280.py line 132
in_range(temp_C, press_hPa) ==
    -40000 <= temp_C /\ temp_C <= 85000 /\ 300000 <= press_hPa /\ press_hPa <= 1100000

\* BMP280Sensor.get_data (lines 129-161): (temperature, pressure) or (None, None)
BMP280Sensor_get_data(read, comp) ==
    IF read.raised THEN <<None, None>>
    ELSE LET adc_P == adc20(SubSeq(read.bytes, 1, 3))
             adc_T == adc20(SubSeq(read.bytes, 4, 6))
             press_hPa == compensate_pressure(comp)
         IN IF adc_T = 0 \/ adc_P = 0 THEN <<None, None>>
            ELSE IF ~in_range(comp.temp_C, press_hPa) THEN <<None, None>>
            ELSE <<[py |-> "float", thousandths |-> round2(comp.temp_C)],
                   [py |-> "float", thousandths |-> round2(press_hPa)]>>

\* AHT20_BMP280.read_bmp280 (lines 117-139): the same after the test of the calibration
read_bmp280(calib, read, comp) ==
    IF ~calib THEN <<None, None>> ELSE BMP280Sensor_get_data(read, comp)

\* one read of the pressure sensor by the holder of a constructed driver
bmp280_read(p) ==
    /\ pc[p] = "ready"
    /\ driver[p].class \in {"BMP280Sensor", "AHT20_BMP280"}
    /\ \E read \in DataReads, comp \in Compensations :
         arg' = [arg EXCEPT ![p] =
                    [read |-> read, comp |-> comp,
                     result |-> IF driver[p].class = "BMP280Sensor"
                                THEN BMP280Sensor_get_data(read, comp)
                                ELSE read_bmp280(driver[p].calib, read, comp)]]
    /\ pc' = [pc EXCEPT ![p] = "have"]
    /\ UNCHANGED <<hw, shared, lock, now, ret, current_dict, data, keysLeft, hist, task>>

\* the holder has the result and goes round
bmp280_return(p) ==
    /\ pc[p] = "have"
    /\ arg' = [arg EXCEPT ![p] = None]
    /\ pc' = [pc EXCEPT ![p] = "ready"]
    /\ UNCHANGED <<hw, shared, lock, now, ret, current_dict, data, keysLeft, hist, task>>

\* close() of a driver (bmp280_sensor.py lines 163-166, aht20_bmp280.py
\* lines 169-175, ens160.py lines 86-92), called by the holder or by __del__
\* (aht20_bmp280.py line 177, ens160.py line 94): `if self.bus:` is true of
\* every handle object, closed or not, and self.bus is left as it is
close(p) ==
    /\ pc[p] \in {"ready", "closed"}
    /\ driver' = [driver EXCEPT ![p] =
                     IF @.bus = "none" THEN @
                     ELSE [@ EXCEPT !.bus = "closed", !.closes = @ + 1]]
    /\ pc' = [pc EXCEPT ![p] = IF pc[p] = "ready" THEN "closed" ELSE "closed again"]
    /\ UNCHANGED <<shared, lock, now, ret, arg, current_dict, data, keysLeft, hist, task, sup>>

\* the holder of a pressure driver: it constructs the driver, reads it again
\* and again and closes it
bmp280_holder(p) ==
    \/ BMP280Sensor_init(p)
    \/ AHT20_BMP280_init(p)
    \/ bmp280_read(p)
    \/ bmp280_return(p)
    \/ close(p)

NextBmp == \E p \in {"BMP280", "AHT20_BMP280"} : bmp280_holder(p)

\* one holder of each driver class, about to construct its driver
InitBmp ==
    \E p \in {"BMP280", "AHT20_BMP280"} :
        StartedAt({p}, EmptyDict, [q \in Procs |-> "construct"])

SpecBmp == InitBmp /\ [][NextBmp]_vars

(***************************************************************************)
(* The gas sensor driver: ENS160 (sensors/ens160.py).                      *)
(***************************************************************************)
\* a gas sensor configured for the bus of the pressure/humidity sensor
ens160_bus_num_Shared == aht20_bmp280_bus_num

\* ens160.py line 6
ens160_bus_num == 0

\* an initialization that does not wait after its writes
ENS160_initialize_NoSettle ==
    <<Xfer("write", 16, 204), Xfer("write", 16, 1), Xfer("write", 17, 2), Xfer("write", 16, 2)>>

\* ENS160._initialize (lines 27-46): four writes, a time.sleep after each
ENS160_initialize ==
    <<Xfer("write", 16, 204), Xfer("sleep", 0, 20),
      Xfer("write", 16, 1), Xfer("sleep", 0, 20),
      Xfer("write", 17, 2), Xfer("sleep", 0, 20),
      Xfer("write", 16, 2), Xfer("sleep", 0, 100)>>

\* ENS160.__init__ (lines 12-46): the bus is opened (bus_num 0, line 6) and the
\* mode sequence written; a write that raises ends the sequence there, and
\* the constructor with it
ENS160_init(p) ==
    /\ pc[p] = "construct"
    /\ \E done \in 0..Len(ENS160_initialize) :
         /\ done < Len(ENS160_initialize) => ENS160_initialize[done + 1].op = "write"
         /\ driver' = [driver EXCEPT ![p] =
                Driver("ENS160", ens160_bus_num, "open", FALSE, 0, SubSeq(ENS160_initialize, 1, done))]
         /\ pc' = [pc EXCEPT ![p] = IF done = Len(ENS160_initialize) THEN "ready" ELSE "failed"]
    /\ UNCHANGED <<shared, lock, now, ret, arg, current_dict, data, keysLeft, hist, task, sup>>

\* int(x * 100) of a number of thousandths: the fraction is cut off
int100(x) == IF x >= 0 THEN x \div 10 ELSE -((-x) \div 10)

\* lines 55-56: [(n >> 8) & 0xFF, n & 0xFF]
bytes(n) == <<(n \div 256) % 256, n % 256>>

\* the temperatures and humidities get_data is called with: the defaults of
\* line 48, those of sensor_manager.py lines 62-63, and a temperature below zero
Ambients == [temperature : {26000, 4000, -5005}, humidity : {27800, 40000}]

\* ENS160.get_data (lines 48-84): the two compensation writes, a delay, and
\* the reads of status, AQI, TVOC and eCO2
ens160_read(p) ==
    /\ pc[p] = "ready"
    /\ driver[p].class = "ENS160"
    /\ \E amb \in Ambients, v \in Values, raised \in BOOLEAN :
         arg' = [arg EXCEPT ![p] =
            [temperature |-> amb.temperature, humidity |-> amb.humidity,
             xfers |-> IF raised THEN << >>
                       ELSE <<Xfer("write_block", 19, bytes(int100(amb.temperature))),
                              Xfer("write_block", 21, bytes(int100(amb.humidity))),
                              Xfer("sleep", 0, 50),
                              Xfer("read", 32, 0), Xfer("read", 33, 0),
                              Xfer("read_block", 34, 2), Xfer("read_block", 36, 2)>>,
             result |-> IF raised THEN None ELSE ENS160_get_data(v)]]
    /\ pc' = [pc EXCEPT ![p] = "have"]
    /\ UNCHANGED <<hw, shared, lock, now, ret, current_dict, data, keysLeft, hist, task>>

\* the caller has the result and goes round
ens160_return(p) ==
    /\ pc[p] = "have"
    /\ driver[p].class = "ENS160"
    /\ arg' = [arg EXCEPT ![p] = None]
    /\ pc' = [pc EXCEPT ![p] = "ready"]
    /\ UNCHANGED <<hw, shared, lock, now, ret, current_dict, data, keysLeft, hist, task>>

\* the holders of a gas sensor driver: the worker of ens160.py (its main,
\* lines 98-112) and the Sensors object of sensor_manager.py (line 38)
EnsHolders == {"ENS160", "sensors"}

NextEns ==
    \E p \in EnsHolders :
        \/ ENS160_init(p)
        \/ ens160_read(p)
        \/ ens160_return(p)
        \/ close(p)

SpecEns == StartedAt(EnsHolders, EmptyDict, [q \in Procs |-> "construct"]) /\ [][NextEns]_vars

(***************************************************************************)
(* The buses of the drivers of the workers main.py starts (lines 95-121).  *)
(***************************************************************************)
\* SDS011.__init__ (sds011.py lines 15-17): the port is only named
SDS011_init(p) ==
    /\ pc[p] = "construct"
    /\ p = "SDS011"
    /\ driver' = [driver EXCEPT ![p] = Driver("SDS011", 0, "none", FALSE, 0, << >>)]
    /\ pc' = [pc EXCEPT ![p] = "ready"]
    /\ UNCHANGED <<shared, lock, now, ret, arg, current_dict, data, keysLeft, hist, task, sup>>

\* sds011.py line 27: get_data opens the port for the one read
SDS011_serial_open(p) ==
    /\ pc[p] = "ready"
    /\ driver[p].class = "SDS011"
    /\ driver' = [driver EXCEPT ![p].bus = "open"]
    /\ pc' = [pc EXCEPT ![p] = "reading"]
    /\ UNCHANGED <<shared, lock, now, ret, arg, current_dict, data, keysLeft, hist, task, sup>>

\* the with block of line 27 is left
SDS011_serial_close(p) ==
    /\ pc[p] = "reading"
    /\ driver' = [driver EXCEPT ![p].bus = "closed"]
    /\ pc' = [pc EXCEPT ![p] = "ready"]
    /\ UNCHANGED <<shared, lock, now, ret, arg, current_dict, data, keysLeft, hist, task, sup>>

\* the device file a driver's handle is of: SMBus(n) is /dev/i2c-n
BusOf(d) ==
    IF d.class = "SDS011" THEN "/dev/ttyS1"
    ELSE IF d.bus_num = 0 THEN "/dev/i2c-0" ELSE "/dev/i2c-1"

\* the sensor workers of main.py, each with the driver of its module
BusHolders == {"AHT20_BMP280", "ENS160", "SDS011"}

NextBuses ==
    \E p \in BusHolders :
        \/ AHT20_BMP280_init(p)
        \/ DriverClass(p) = "ENS160" /\ ENS160_init(p)
        \/ SDS011_init(p)
        \/ DriverClass(p) = "ENS160" /\ ens160_read(p)
        \/ ens160_return(p)
        \/ SDS011_serial_open(p)
        \/ SDS011_serial_close(p)
        \/ p # "SDS011" /\ close(p)

SpecBuses == StartedAt(BusHolders, EmptyDict, [q \in Procs |-> "construct"]) /\ [][NextBuses]_vars

(***************************************************************************)
(* main.py main: leaving the supervision loop (lines 162-186).             *)
(***************************************************************************)
\* the list `processes` in the order of lines 95-140
processes == <<"AHT20_BMP280", "ENS160", "SDS011", "CPU_TEMP", "sensor_community">>

\* Process.is_alive(): started and not ended
is_alive(w) == pc[w] \notin {"off", "done", "exited", "killed"}

\* a worker's function ends by itself (the handlers that end start_process,
\* sds011.py lines 77-81, cpu_temperature.py lines 48-52)
worker_ends(w) ==
    /\ is_alive(w)
    /\ lock # w
    /\ pc' = [pc EXCEPT ![w] = "done"]
    /\ UNCHANGED <<shared, lock, now, ret, arg, current_dict, data, keysLeft, hist, task, hw>>

\* the loop of lines 164-169 is left: signal_handler (lines 28-30) raises
\* SystemExit at whatever point the loop is, or update_service_status
\* raises; a with block of the lock is left on the way
main_exit ==
    /\ pc["Main"] \in {"alive", "uss_copy", "uss_store", "sleep"}
    /\ \E cause \in {"SIGINT", "SIGTERM", "Exception"} :
         /\ cause = "Exception" => pc["Main"] \in {"uss_copy", "uss_store"}
         /\ sup' = [sup EXCEPT !.cause = cause]
    /\ LockRelease("Main")
    /\ current_dict' = [current_dict EXCEPT !["Main"] = None]
    /\ arg' = [arg EXCEPT !["Main"] = None]
    /\ pc' = [pc EXCEPT !["Main"] = "finally"]
    /\ UNCHANGED <<shared, now, ret, data, keysLeft, hist, task, driver>>

\* lines 179-181: the next process of the list; one that is alive is sent terminate()
main_finally_terminate ==
    /\ pc["Main"] = "finally"
    /\ IF sup.i > Len(processes)
       THEN /\ pc' = [pc EXCEPT !["Main"] = "stopped"]
            /\ sup' = sup
       ELSE LET p == processes[sup.i]
            IN IF is_alive(p)
               THEN /\ sup' = [sup EXCEPT !.terminate = @ \cup {p}]
                    /\ pc' = [pc EXCEPT !["Main"] = "join"]
               ELSE /\ sup' = [sup EXCEPT !.i = @ + 1]
                    /\ pc' = pc
    /\ UNCHANGED <<shared, lock, now, ret, arg, current_dict, data, keysLeft, hist, task, driver>>

\* a shutdown that waits for the worker and leaves it at that
main_finally_join_NoKill ==
    /\ pc["Main"] = "join"
    /\ LET p == processes[sup.i]
       IN /\ \/ pc' = [pc EXCEPT ![p] = IF is_alive(p) THEN "exited" ELSE @, !["Main"] = "finally"]
             \/ pc' = [pc EXCEPT !["Main"] = "finally"]
          /\ sup' = [sup EXCEPT !.i = @ + 1]
    /\ UNCHANGED <<shared, lock, now, ret, arg, current_dict, data, keysLeft, hist, task, driver>>

\* lines 182-184: join(timeout=2); the worker has ended within it (the
\* handler it inherited raises SystemExit in it), or it has not and is sent kill()
main_finally_join ==
    /\ pc["Main"] = "join"
    /\ LET p == processes[sup.i]
       IN \/ /\ pc' = [pc EXCEPT ![p] = IF is_alive(p) THEN "exited" ELSE @, !["Main"] = "finally"]
             /\ sup' = [sup EXCEPT !.i = @ + 1]
          \/ /\ is_alive(p)
             /\ pc' = [pc EXCEPT ![p] = "killed", !["Main"] = "finally"]
             /\ sup' = [sup EXCEPT !.i = @ + 1, !.kill = @ \cup {p}]
    /\ UNCHANGED <<shared, lock, now, ret, arg, current_dict, data, keysLeft, hist, task, driver>>

\* main() with the workers of its list, each of which runs until it ends
\* by itself or is stopped
NextShutdown ==
    \/ main
    \/ main_exit
    \/ main_finally_terminate
    \/ main_finally_join
    \/ \E i \in DOMAIN processes : worker_ends(processes[i])

SpecShutdown ==
    Started({"Main"} \cup {processes[i] : i \in DOMAIN processes}) /\ [][NextShutdown]_vars

(***************************************************************************)
(* air/sensor.py get_air_sensor from its first line (lines 251-301): the   *)
(* construction of its AirSensor and the ways its loop is left.            *)
(***************************************************************************)
\* line 256, AirSensor.__init__ (lines 54-58, 74-90, 92-120, 122-125): the
\* bus is opened, the chip ID tested, the mode written and the calibration
\* read; every failure is logged and raised again, out of the constructor
get_air_sensor_init ==
    /\ pc["air"] = "construct"
    /\ \E chip_id \in ChipIds, io_ok \in BOOLEAN :
         LET id_read == <<Xfer("read", 208, chip_id)>>
         IN IF chip_id # 88
            THEN /\ driver' = [driver EXCEPT !["air"] = Driver("AirSensor", 0, "open", FALSE, chip_id, id_read)]
                 /\ pc' = [pc EXCEPT !["air"] = "except"]
            ELSE IF ~io_ok
            THEN /\ driver' = [driver EXCEPT !["air"] =
                        Driver("AirSensor", 0, "open", FALSE, chip_id, id_read \o ModeWrites)]
                 /\ pc' = [pc EXCEPT !["air"] = "except"]
            ELSE /\ driver' = [driver EXCEPT !["air"] =
                        Driver("AirSensor", 0, "open", TRUE, chip_id,
                               id_read \o ModeWrites \o CalibrationReads)]
                 /\ pc' = [pc EXCEPT !["air"] = "read_all"]
    /\ UNCHANGED <<shared, lock, now, ret, arg, current_dict, data, keysLeft, hist, task, sup>>

\* lines 293-294 and 299-301: KeyboardInterrupt while the loop reads or
\* sleeps; `sensor` is the driver, and finally closes it (lines 245-248)
get_air_sensor_interrupt ==
    /\ pc["air"] \in {"read_all", "sleep"}
    /\ driver' = [driver EXCEPT !["air"] = [@ EXCEPT !.bus = "closed", !.closes = @ + 1]]
    /\ arg' = [arg EXCEPT !["air"] = None]
    /\ pc' = [pc EXCEPT !["air"] = "done"]
    /\ UNCHANGED <<shared, lock, now, ret, current_dict, data, keysLeft, hist, task, sup>>

\* lines 295-301 after the constructor raised: the handler stores its entry;
\* `sensor` is still None, and finally closes nothing
get_air_sensor_except ==
    /\ pc["air"] = "except"
    /\ lock = Free
    /\ shared' = DictUpdate(shared, ("air" :> [status |-> "error", error |-> "str(e)"]))
    /\ pc' = [pc EXCEPT !["air"] = "done"]
    /\ UNCHANGED <<hw, lock, now, ret, arg, current_dict, data, keysLeft, hist, task>>

NextAirSensor ==
    \/ Tick
    \/ get_air_sensor_init
    \/ get_air_sensor
    \/ get_air_sensor_interrupt
    \/ get_air_sensor_except

SpecAirSensor ==
    StartedAt({"air"}, EmptyDict, [p \in Procs |-> "construct"]) /\ [][NextAirSensor]_vars

(***************************************************************************)
(* The raw values of the humidity sensor (AHT20_BMP280.read_aht20,         *)
(* sensors/aht20_bmp280.py lines 141-153) and the calibration words of the *)
(* pressure sensor (BMP280Sensor, sensors/bmp280_sensor.py lines 58-69).   *)
(***************************************************************************)
\* x << n and x >> n of a non-negative int
shl(x, n) == x * 2^n
shr(x, n) == x \div 2^n

RECURSIVE BitAnd(_, _)
\* x & y of non-negative ints, bit by bit
BitAnd(x, y) ==
    IF x = 0 \/ y = 0 THEN 0
    ELSE (IF x % 2 = 1 /\ y % 2 = 1 THEN 1 ELSE 0) + 2 * BitAnd(x \div 2, y \div 2)

RECURSIVE BitOr(_, _)
\* x | y of non-negative ints, bit by bit
BitOr(x, y) ==
    IF x = 0 THEN y
    ELSE IF y = 0 THEN x
    ELSE (IF x % 2 = 1 \/ y % 2 = 1 THEN 1 ELSE 0) + 2 * BitOr(x \div 2, y \div 2)

\* the bytes the model gives a measurement outside the one both values share
ByteSamples == {0, 1, 128, 255}

\* what the six-byte read of line 145 can give: data[3], the byte the two
\* values share, is any byte
AhtReads ==
    {<<0, b1, b2, b3, b4, b5>> :
        b1 \in ByteSamples, b2 \in ByteSamples, b3 \in 0..255, b4 \in ByteSamples, b5 \in ByteSamples}

\* a parse that takes the whole of data[3] into the temperature
read_aht20_NoMask(d) ==
    [hum_raw |-> shl(d[2], 12) + shl(d[3], 4) + shr(d[4], 4),
     temp_raw |-> shl(d[4], 16) + shl(d[5], 8) + d[6]]

\* lines 146-147 (data[i] is d[i + 1]); sensors/old/ens160_aht21.py parse_aht21
\* (lines 20-21) has the same two lines
read_aht20(d) ==
    [hum_raw |-> shl(d[2], 12) + shl(d[3], 4) + shr(d[4], 4),
     temp_raw |-> shl(BitAnd(d[4], 15), 16) + shl(d[5], 8) + d[6]]

\* test/ens160_aht21_driver.py AHT21.read lines 99-100: the same with |
AHT21_read(d) ==
    [hum_raw |-> BitOr(BitOr(shl(d[2], 12), shl(d[3], 4)), shr(d[4], 4)),
     temp_raw |-> BitOr(BitOr(shl(BitAnd(d[4], 15), 16), shl(d[5], 8)), d[6])]

\* a conversion whose threshold is one too high
read_word_signed_OffByOne(w) ==
    LET value == BitOr(shl(w[2], 8), w[1])
    IN IF value > 32768 THEN value - 65536 ELSE value

\* _read_word_signed, bmp280_sensor.py lines 58-65, of the two bytes read
read_word_signed(w) ==
    LET value == BitOr(shl(w[2], 8), w[1])
    IN IF value > 32767 THEN value - 65536 ELSE value

\* _read_word_unsigned, lines 67-69
read_word_unsigned(w) == BitOr(shl(w[2], 8), w[1])

\* test/ens160_aht21.py BMP280._to_signed (lines 50-54)
to_signed(val) == IF val >= 32768 THEN val - 65536 ELSE val

\* Python's `c and x or y` of a condition c and ints x, y: y when c is false or x is 0
AndOr(c, x, y) == IF c /\ x # 0 THEN x ELSE y

\* test/test_air.py load_calibration line 63
load_calibration_signed(val) == AndOr(val > 32767, val - 65536, val)

\* one measurement of the humidity sensor is parsed
read_aht20_call(p) ==
    /\ pc[p] = "convert"
    /\ p = "AHT20_BMP280"
    /\ \E d \in AhtReads :
         arg' = [arg EXCEPT ![p] = [read |-> d, result |-> read_aht20(d)]]
    /\ pc' = [pc EXCEPT ![p] = "converted"]
    /\ UNCHANGED <<hw, shared, lock, now, ret, current_dict, data, keysLeft, hist, task>>

\* one calibration word is read, as a signed and as an unsigned one
read_word_call(p) ==
    /\ pc[p] = "convert"
    /\ p = "BMP280"
    /\ \E lo \in 0..255, hi \in 0..255 :
         arg' = [arg EXCEPT ![p] =
                    [read |-> <<lo, hi>>,
                     result |-> [signed |-> read_word_signed(<<lo, hi>>),
                                 unsigned |-> read_word_unsigned(<<lo, hi>>)]]]
    /\ pc' = [pc EXCEPT ![p] = "converted"]
    /\ UNCHANGED <<hw, shared, lock, now, ret, current_dict, data, keysLeft, hist, task>>

\* the caller has the values and reads again
convert_return(p) ==
    /\ pc[p] = "converted"
    /\ arg' = [arg EXCEPT ![p] = None]
    /\ pc' = [pc EXCEPT ![p] = "convert"]
    /\ UNCHANGED <<hw, shared, lock, now, ret, current_dict, data, keysLeft, hist, task>>

NextRaw ==
    \E p \in {"AHT20_BMP280", "BMP280"} :
        \/ read_aht20_call(p)
        \/ read_word_call(p)
        \/ convert_return(p)

\* one of the two drivers, reading again and again
InitRaw ==
    \E p \in {"AHT20_BMP280", "BMP280"} :
        StartedAt({p}, EmptyDict, [q \in Procs |-> "convert"])

SpecRaw == InitRaw /\ [][NextRaw]_vars

(***************************************************************************)
(* main.py: the start of the program (lines 9-17 and 92-160).              *)
(***************************************************************************)
\* lines 9-17: the modules of the workers are imported. sensors/ens160.py
\* calls logging.getLogger at its line 9 and has no import of logging, and
\* sensors/aht20_bmp280.py and sensors/ens160.py define no start_process
\* (lines 96 and 105 name them): with the modules as they are the program
\* ends with that error. In the other branch the two modules have what the
\* workers started from them need.
main_import ==
    /\ pc["Main"] = "import"
    /\ \/ /\ pc' = [pc EXCEPT !["Main"] = "raised"]
          /\ sup' = [sup EXCEPT !.cause = "NameError"]
       \/ /\ pc' = [pc EXCEPT !["Main"] = "start"]
          /\ sup' = sup
    /\ UNCHANGED <<shared, lock, now, ret, arg, current_dict, data, keysLeft, hist, task, driver>>

\* lines 142-146: the processes of the list are started one after the other,
\* a second apart; after the last one (lines 148-160) the loop is entered
main_start ==
    /\ pc["Main"] = "start"
    /\ IF sup.i <= Len(processes)
       THEN /\ pc' = [pc EXCEPT ![processes[sup.i]] = StartPc(processes[sup.i])]
            /\ sup' = [sup EXCEPT !.i = @ + 1]
       ELSE /\ pc' = [pc EXCEPT !["Main"] = "alive"]
            /\ sup' = [sup EXCEPT !.i = 1]
    /\ UNCHANGED <<shared, lock, now, ret, arg, current_dict, data, keysLeft, hist, task, driver>>

\* main() from its first line, beside the workers it has started
NextStartup ==
    \/ Tick
    \/ main_import
    \/ main_start
    \/ main
    \/ start_process("SDS011")
    \/ cpu_start_process

SpecStartup ==
    StartedAt({"Main"}, EmptyDict, [p \in Procs |-> "import"]) /\ [][NextStartup]_vars

(***************************************************************************)
(* The lock under fair scheduling.                                         *)
(***************************************************************************)
\* main() in its loop beside two of the workers it starts; the loop can be
\* left at any point, a with block of the lock included
NextFair ==
    \/ start_process("SDS011")
    \/ cpu_start_process
    \/ main
    \/ main_exit

\* a process that waits for the lock is a pending acquire in the manager's
\* server; the holders leave their blocks without waiting for anything and
\* then sleep for seconds, so that a waiting process is served: every
\* process that can step again and again does step
SpecFair ==
    /\ Started({"SDS011", "CPU_TEMP", "Main"})
    /\ [][NextFair]_vars
    /\ SF_vars(start_process("SDS011"))
    /\ SF_vars(cpu_start_process)
    /\ SF_vars(main)

(***************************************************************************)
(* The sleeps of the delivery tasks.                                       *)
(***************************************************************************)
\* aircms_online.py line 18, sensor_community.py line 18
SEND_INTERVAL(t) == IF t = "aircms.online" THEN 300 ELSE 180

\* the argument of the time.sleep a delivery task is in: aircms_online.py
\* lines 166 and 174, sensor_community.py lines 108, 137 and 145
sleep_seconds(t) ==
    CASE pc[t] \in {"sleep", "sc_sleep"} -> SEND_INTERVAL(t)
      [] pc[t] \in {"backoff", "sc_backoff"} -> 60
      [] pc[t] = "sc_sleep10" -> 10
      [] OTHER -> 0

(***************************************************************************)
(* Properties of the store.                                                *)
(***************************************************************************)
Readers == {"flask"}

\* the fields a family is stored with
FamilyFields(F) ==
    IF F = "SDS011" THEN DOMAIN SDS011_get_data(0, 0, 0).SDS011
    ELSE DOMAIN AHT20_BMP280_get_data(0, 0)[F]

InUpdate(p) == pc[p] \in {"usd_store", "uss_store"}

\* C1: a reader's copy of 'Sensor data', taken under the lock, is the namespace
\* as the writes that had acquired the lock before it give it when applied one
\* after the other in lock order, and every family in it has all its fields.
C1_SnapshotIsPrefixOfWrites ==
    \A r \in Readers :
        (pc[r] = "have" /\ "Sensor data" \in DOMAIN View(r)) =>
            /\ View(r)["Sensor data"] = snapSeq[r]
            /\ \A F \in DOMAIN View(r)["Sensor data"] :
                   DOMAIN View(r)["Sensor data"][F] = FamilyFields(F)

C1_Witness ==
    /\ pc["flask"] = "have"
    /\ DOMAIN View("flask")["Sensor data"] = {"SDS011", "BMP280", "AHT20"}
    /\ shared["Sensor data"] # View("flask")["Sensor data"]

\* C2: no update is lost: whatever a process's latest finished update_* call
\* wrote under its keys is what the namespace holds under them, and no two
\* calls are between their copy and their store at once.
C2_NoLostUpdate ==
    /\ \A p \in Procs : \A ns \in DOMAIN lastWritten[p] : \A k \in DOMAIN lastWritten[p][ns] :
           /\ k \in DOMAIN shared[ns]
           /\ shared[ns][k] = lastWritten[p][ns][k]
    /\ \A p, q \in Procs : (InUpdate(p) /\ InUpdate(q)) => p = q

C2_Witness ==
    /\ \A w \in SensorWorkers : DOMAIN lastWritten[w] = {"Sensor data", "Service data"}
    /\ \A w \in SensorWorkers : ~InUpdate(w)
    /\ \E w \in SensorWorkers : \E k \in DOMAIN lastWritten[w]["Service data"] :
           lastWritten[w]["Service data"][k].timestamp = 1

\* C3: the store of update_sensor_data(shared_dict, lock, data) sets each family
\* of data to exactly data's fields and changes nothing else: no other family
\* of 'Sensor data', and no other key of the dictionary.
C3_SensorDataFrame ==
    [][\A p \in Procs : (pc[p] = "usd_store" /\ pc'[p] # "usd_store") =>
          /\ DOMAIN shared' = DOMAIN shared
          /\ \A k \in DOMAIN shared \ {"Sensor data"} : shared'[k] = shared[k]
          /\ DOMAIN shared'["Sensor data"] = DOMAIN shared["Sensor data"] \cup DOMAIN arg[p]
          /\ \A F \in DOMAIN arg[p] : shared'["Sensor data"][F] = arg[p][F]
          /\ \A F \in DOMAIN shared["Sensor data"] \ DOMAIN arg[p] :
                 shared'["Sensor data"][F] = shared["Sensor data"][F]]_vars

C3_Witness ==
    /\ "SDS011" \in DOMAIN lastWritten
    /\ "Sensor data" \in DOMAIN lastWritten["SDS011"]
    /\ {"SDS011", "BMP280"} \subseteq DOMAIN shared["Sensor data"]
    /\ DOMAIN shared["Service data"] # {}

\* C4: update_service_status(shared_dict, lock, P, message) builds the entry
\* {message, timestamp: the time of the call} and its store puts that entry
\* under P and changes nothing else: no other process's entry, and no other
\* key of the dictionary.
C4_ServiceStatusFrame ==
    [][\A p \in Procs :
          /\ (pc[p] = "uss_copy" /\ pc'[p] = "uss_store") =>
                current_dict'[p][arg[p].process_name] =
                    [message |-> arg[p].message, timestamp |-> now]
          /\ (pc[p] = "uss_store" /\ pc'[p] # "uss_store") =>
                LET P == arg[p].process_name IN
                /\ DOMAIN shared' = DOMAIN shared
                /\ \A k \in DOMAIN shared \ {"Service data"} : shared'[k] = shared[k]
                /\ DOMAIN shared'["Service data"] = DOMAIN shared["Service data"] \cup {P}
                /\ shared'["Service data"][P].message = arg[p].message
                /\ shared'["Service data"][P] = current_dict[p][P]
                /\ \A Q \in DOMAIN shared["Service data"] \ {P} :
                       shared'["Service data"][Q] = shared["Service data"][Q]]_vars

C4_Witness ==
    /\ DOMAIN shared["Service data"] = {"SDS011", "AHT20_BMP280"}
    /\ shared["Service data"]["SDS011"].timestamp = 1
    /\ shared["Service data"]["AHT20_BMP280"].timestamp = 0
    /\ shared["Sensor data"] # EmptyDict

Owned(p) ==
    CASE p = "SDS011" -> {"SDS011"}
      [] p = "AHT20_BMP280" -> {"BMP280", "AHT20"}
      [] p = "sensors" -> {"SDS011"} \cup DOMAIN ENS160_get_data(0) \cup {"timestamp"}
      [] OTHER -> {p}

\* C5: every store write of a worker (update_sensor_data, update_service_status,
\* get_sensors_data) changes only the families and status slots the worker
\* owns: every other entry of 'Sensor data' and 'Service data' is still there,
\* unchanged, after the write.
C5_WriteKeepsOthersEntries ==
    [][\A p \in Procs : pc'[p] # pc[p] =>
          \A ns \in {"Sensor data", "Service data"} :
              \A k \in DOMAIN shared[ns] \ Owned(p) :
                  /\ k \in DOMAIN shared'[ns]
                  /\ shared'[ns][k] = shared[ns][k]]_vars

\* C7: the families a delivery task builds its payload from were all read
\* from one state of the store: no store fell between its reads of a cycle.
C7_PayloadFromOneState ==
    pc["aircms.online"] = "post" => "aircms.online" \notin interleaved

\* where a process reads a device, sends an HTTP request or sleeps between cycles
IOPcs ==
    {"get_data", "read_all", "post", "sc_push_pm", "sc_push_climate",
     "sleep", "backoff", "sc_sleep10", "sc_sleep", "sc_backoff"}

\* C8: in every reachable state no process that is reading a device, sending
\* an HTTP request or sleeping between cycles holds the lock.
C8_NoLockAcrossIO ==
    \A p \in Procs : pc[p] \in IOPcs => lock # p

C8_Witness ==
    /\ pc["sensor_community"] \in {"sc_push_pm", "sc_push_climate"}
    /\ lock = "air"
    /\ "air" \in DOMAIN shared

\* where a delivery task is once a cycle has ended
AfterCycle(t) ==
    /\ pc[t] \in {"sleep", "backoff", "sc_sleep10", "sc_sleep", "sc_backoff"}
    /\ outcome[t] # "none"

\* C9: after any cycle a delivery task's consecutive_errors is the number of
\* failed cycles since its latest successful cycle (zero after a success).
C9_CounterIsFailedSince ==
    \A t \in Tasks : AfterCycle(t) => consecutive_errors[t] = failedSince[t].cycles

\* C10: after the third of three consecutive cycles in which every POST of a
\* delivery task was refused, the message of the task's own status entry
\* holds the count 3, and the task is still in its loop.
C10_ThirdFailureReported ==
    \A t \in Tasks : (AfterCycle(t) /\ failedSince[t].posts = 3) =>
        /\ t \in DOMAIN shared["Service data"]
        /\ shared["Service data"][t].message.n = 3
        /\ pc[t] # "done"

(***************************************************************************)
(* Properties of a delivery cycle.                                         *)
(***************************************************************************)
\* C11: a cycle that attempted delivery ends with the task's own status entry
\* written: OK after a success, otherwise an error message holding the
\* current consecutive_errors; the entry is there when the task sleeps.
C11_StatusAfterAttempt ==
    \A t \in Tasks : (AfterCycle(t) /\ outcome[t] \in {"ok", "fail"}) =>
        /\ t \in DOMAIN shared["Service data"]
        /\ LET m == shared["Service data"][t].message IN
           IF outcome[t] = "ok" THEN m = Msg("OK", 0)
           ELSE m.text # "OK" /\ m.n = consecutive_errors[t]

\* C12: the sleep after an exception is strictly longer than SEND_INTERVAL,
\* the sleep after a normal cycle.
C12_BackoffIsLonger ==
    \A t \in Tasks : pc[t] \in {"backoff", "sc_backoff"} => sleep_seconds(t) > SEND_INTERVAL(t)

\* C13: a cycle of the signed task in which a family it builds its payload
\* from was absent records 'no data to send' and goes to its normal sleep:
\* no exception path, no increment of consecutive_errors, no POST.
C13_MissingFamilyIsNoData ==
    [][LET a == "aircms.online" IN
       (/\ pc[a] = "check"
        /\ pc'[a] # "check"
        /\ \E F \in {"bmp280", "sds011", "aht20"} : data[a].val[F] = None) =>
           /\ pc'[a] = "uss_copy"
           /\ ret'[a] = "sleep"
           /\ arg'[a].message = Msg("Net dannyh dlya otpravki", 0)
           /\ consecutive_errors'[a] = consecutive_errors[a]]_vars

\* C14: no failure inside a cycle ends a delivery task: it never leaves its
\* loop, its exception handler leads to the backoff sleep, and every sleep
\* is followed by the start of another cycle.
C14_TaskKeepsLooping ==
    [][\A t \in Tasks : pc[t] # "off" =>
          /\ pc'[t] \notin {"off", "done"}
          /\ (pc[t] \in {"except", "sc_except"} /\ pc'[t] # pc[t]) =>
                 (pc'[t] = "sc_backoff" \/ ret'[t] = "backoff")
          /\ (pc[t] \in {"sleep", "backoff", "sc_sleep10", "sc_sleep", "sc_backoff"}
                 /\ pc'[t] # pc[t]) => pc'[t] = StartPc(t)]_vars

C14_Witness ==
    /\ failedSince["aircms.online"].cycles >= 2
    /\ outcome["aircms.online"] = "fail"
    /\ pc["aircms.online"] = "post"

(***************************************************************************)
(* Properties of the requests.                                             *)
(***************************************************************************)
\* C15: a community push posts to both endpoints whatever the first answers,
\* and reports success iff at least one of them answered 200 or 201; a
\* request that raised is the failure of its endpoint only.
C15_PushSuccessIffAnyAccepted ==
    LET h == http["sensor_community"] IN
    h.requests # << >> =>
        /\ Len(h.requests) = 2
        /\ h.requests[1].url = API_URL_SENSOR
        /\ h.requests[2].url = API_URL_MADAVI
        /\ h.requests[1].values = h.requests[2].values
        /\ h.success = (\E i \in 1..2 : h.requests[i].status \in {200, 201})
        /\ pc["sensor_community"] = "sc_push_climate" => pm_success = h.success

C15_Witness ==
    /\ pc["sensor_community"] = "sc_push_climate"
    /\ pm_success
    /\ http["sensor_community"].requests[1].status = 0
    /\ http["sensor_community"].requests[2].status = 201

\* C16: send_data_to_doiot returns True iff the POST was answered with status
\* 200; for any other status and for a request that raised it returns False,
\* and its caller goes on in the branch for a failed send.
C16_TrueIffStatus200 ==
    LET a == "aircms.online"
        h == http[a]
    IN h.requests # << >> =>
        /\ Len(h.requests) = 1
        /\ h.success = (h.requests[1].status = 200)
        /\ (outcome[a] = "ok") = (h.requests[1].status = 200)
        /\ h.requests[1].status # 200 => outcome[a] \in {"posting", "fail"}

C16_Witness ==
    /\ pc["aircms.online"] = "except"
    /\ outcome["aircms.online"] = "posting"
    /\ http["aircms.online"].requests[1].status = 0

\* C17: the h parameter of the request is H(H(token) + H(our_data + token))
\* with the one hash H in its three rounds, and the body of the request is
\* the our_data the signature was made over.
C17_SignatureChain ==
    LET a == "aircms.online"
        token == MAC_ADDR
    IN \A i \in DOMAIN http[a].requests :
        LET r == http[a].requests[i]
            our_data == Lit("L=") \o CHIP_ID \o Lit("&t=") \o StrInt(now) \o Lit("&airrohr=")
                        \o JsonDumps(sensor_data(data[a].val))
        IN /\ r.body = our_data
           /\ r.url = Lit("https://doiot.ru") \o Lit("/php/sensors.php") \o Lit("?h=")
                      \o SHA1(SHA1(token) \o SHA1(r.body \o token))

C17_Witness ==
    /\ http["aircms.online"].success
    /\ Len(http["aircms.online"].requests[1].body) = 6
    /\ pc["aircms.online"] = "sleep"

(***************************************************************************)
(* Properties of the flow from the sensor workers to the community task.   *)
(***************************************************************************)
\* the families the community task's payload is made of
Written == {"SDS011", "BMP280"} \subseteq DOMAIN shared["Sensor data"]

\* C18: once the particulate worker and the pressure worker have written
\* their families, the next cycle of the community task sends a payload of
\* exactly four sensordatavalues: PM10, PM2.5 and temperature with two
\* decimals and the pressure in Pa, as stored.
C18_PayloadOfFourValues ==
    [][LET t == "sensor_community" IN
       (pc[t] = "sc_unlock" /\ pc'[t] # "sc_unlock" /\ Written) =>
           /\ pc'[t] = "sc_push_pm"
           /\ LET sd == shared["Sensor data"]
                  air_data == data[t].val
              IN push_sds011_values(air_data.pm10, air_data.pm25)
                    \o push_bme280_values(air_data.temperature, air_data.pressure)
                 = <<[value_type |-> "P1", value |-> Format(sd.SDS011.pm10.value, ".2f")],
                     [value_type |-> "P2", value |-> Format(sd.SDS011.pm25.value, ".2f")],
                     [value_type |-> "temperature", value |-> Format(sd.BMP280.Temperature.value, ".2f")],
                     [value_type |-> "pressure", value |-> Format(sd.BMP280.Pressure.value * 100, ".0f")]>>]_vars

\* C19: once the sensor workers have written the families under 'Sensor
\* data', the community task started beside them eventually posts them and
\* then has its status in 'Service data'.
C19_DataReachesDelivery ==
    (Written /\ pc["sensor_community"] # "off") ~>
        (/\ http["sensor_community"].requests # << >>
         /\ "sensor_community" \in DOMAIN shared["Service data"])

C21_ValidFrameDecodes ==
    \A p \in {"SDS011", "air"} : pc[p] = "decoded" =>
        LET read == arg[p].read
            b == read.bytes
            valid == ~read.raised /\ Len(b) = 10 /\ b[1] = 170 /\ b[2] = 192 /\ b[10] = 171
            pm25 == [py |-> "float", tenths |-> b[3] + 256 * b[4]]
            pm10 == [py |-> "float", tenths |-> b[5] + 256 * b[6]]
        IN valid =>
            /\ IF p = "SDS011"
               THEN /\ arg[p].result # None
                    /\ DOMAIN arg[p].result.SDS011 = {"pm25", "pm10"}
                    /\ arg[p].result.SDS011.pm25.value = pm25
                    /\ arg[p].result.SDS011.pm10.value = pm10
               ELSE arg[p].result = <<pm25, pm10>>
            /\ test_read_sds011(read) = <<pm25, pm10>>

C21_Witness ==
    /\ pc["SDS011"] = "decoded"
    /\ pc["air"] = "decoded"
    /\ arg["SDS011"].result # None
    /\ arg["SDS011"].read.bytes[4] = 1
    /\ arg["SDS011"].read.bytes[7] = 255
    /\ arg["air"].result[1] # None
    /\ arg["air"].read.bytes[6] = 1
    /\ arg["air"].read.bytes[7] = 0

(***************************************************************************)
(* Properties of the pressure/temperature drivers.                         *)
(***************************************************************************)
\* C22: the pressure/temperature read gives (None, None) when a raw 20-bit
\* field is zero, when the temperature is outside [-40, 85] or the pressure
\* outside [300, 1100] (0.0 of the guarded divisor among them), and both
\* values otherwise; it never gives one value without the other.
C22_BothOrNeither ==
    \A p \in {"BMP280", "AHT20_BMP280"} : pc[p] = "have" =>
        LET read == arg[p].read
            comp == arg[p].comp
            r == arg[p].result
            P == IF comp.var1_zero THEN 0 ELSE comp.p
            zero_adc == \/ read.bytes[1] = 0 /\ read.bytes[2] = 0 /\ read.bytes[3] < 16
                        \/ read.bytes[4] = 0 /\ read.bytes[5] = 0 /\ read.bytes[6] < 16
            rejected == \/ zero_adc
                        \/ comp.temp_C < -40000 \/ comp.temp_C > 85000
                        \/ P < 300000 \/ P > 1100000
        IN /\ (r[1] = None) = (r[2] = None)
           /\ (~read.raised /\ driver[p].calib) => ((r[1] = None) = rejected)
           /\ (read.raised \/ ~driver[p].calib) => r[1] = None

C22_Witness ==
    /\ pc["BMP280"] = "have"
    /\ ~arg["BMP280"].read.raised
    /\ arg["BMP280"].comp.var1_zero
    /\ arg["BMP280"].read.bytes[3] = 16
    /\ arg["BMP280"].result = <<None, None>>

\* C23: when the chip ID register gives something other than 0x58, the
\* construction of the driver fails (its holder does not go on to read), no
\* calibration register has been read, and no pressure family is in the store.
C23_WrongChipIsFatal ==
    \A p \in {"BMP280", "AHT20_BMP280"} :
        (driver[p] # None /\ driver[p].chip_id # 88) =>
            /\ pc[p] = "failed"
            /\ \A i \in DOMAIN driver[p].log :
                  \A j \in DOMAIN CalibrationReads : driver[p].log[i] # CalibrationReads[j]
            /\ "BMP280" \notin DOMAIN shared["Sensor data"]

\* C24: however often close is called on a driver, the call of __del__ after
\* an explicit close among them, the bus handle's close() has been called
\* exactly once.
C24_CloseReleasesOnce ==
    \A p \in {"BMP280", "AHT20_BMP280", "ENS160", "sensors"} :
        pc[p] \in {"closed", "closed again"} => driver[p].closes = 1

(***************************************************************************)
(* Properties of the gas sensor driver.                                    *)
(***************************************************************************)
\* C25: the initialization writes hardware reset, idle, the standard
\* profile and the standard measurement mode, in this order, and waits after
\* each write; a driver that is read has made all four writes and waited
\* after the fourth, and nothing else before.
C25_ModeSequenceBeforeReads ==
    \A p \in {"ENS160", "sensors"} :
    LET reset == [op |-> "write", reg |-> 16, val |-> 204]
        idle == [op |-> "write", reg |-> 16, val |-> 1]
        configure == [op |-> "write", reg |-> 17, val |-> 2]
        standard == [op |-> "write", reg |-> 16, val |-> 2]
        log == driver[p].log
    IN driver[p] # None =>
        /\ \A i \in DOMAIN log :
              /\ i = 1 => log[i] = reset
              /\ i = 3 => log[i] = idle
              /\ i = 5 => log[i] = configure
              /\ i = 7 => log[i] = standard
              /\ i % 2 = 0 => log[i].op = "sleep" /\ log[i].val >= 10
        /\ Len(log) <= 8
        /\ pc[p] \in {"ready", "have"} => Len(log) = 8

C25_Witness ==
    /\ pc["ENS160"] = "have"
    /\ arg["ENS160"].result # None
    /\ Len(arg["ENS160"].xfers) = 7

\* C26: before its reads, get_data writes the temperature input as the low
\* byte and then the high byte of int(T * 100), and the humidity input as
\* the low byte and then the high byte of int(H * 100).
C26_CompensationLittleEndian ==
    \A p \in {"ENS160", "sensors"} :
    (pc[p] = "have" /\ arg[p].result # None) =>
        LET t == arg[p].temperature \div 10
            h == arg[p].humidity \div 10
        IN (0 <= t /\ t < 65536 /\ 0 <= h /\ h < 65536) =>
            /\ arg[p].xfers[1] = [op |-> "write_block", reg |-> 19, val |-> <<t % 256, t \div 256>>]
            /\ arg[p].xfers[2] = [op |-> "write_block", reg |-> 21, val |-> <<h % 256, h \div 256>>]

(***************************************************************************)
(* Properties of the sensor workers' cycles.                               *)
(***************************************************************************)
\* the worker's read has given no value: nothing to store, or a status
\* message made of None or of an exception
NoReading(w) ==
    \/ arg[w] = None
    \/ /\ "message" \in DOMAIN arg[w]
       /\ arg[w].message.text \in {"CPU_temp None", "CPU_temp exception"}

\* C27: a cycle of a sensor worker whose read or decoding fails leaves the
\* store as it was and goes to the sleep before the next cycle.
C27_FailedCycleWritesNothing ==
    [][\A w \in {"SDS011", "CPU_TEMP"} :
        (pc[w] = "get_data" /\ pc'[w] # "get_data" /\ NoReading(w)') =>
            (pc'[w] = "sleep" /\ shared' = shared)]_vars

\* C28: every cycle of a worker, one without a valid value too, writes the
\* worker's own entry of 'Service data' before the sleep that ends the cycle.
C28_StatusEveryCycle ==
    [][\A w \in {"SDS011", "AHT20_BMP280", "CPU_TEMP"} :
        (pc[w] # "sleep" /\ pc'[w] = "sleep") =>
            /\ pc[w] = "uss_store"
            /\ w \in DOMAIN shared'["Service data"]
            /\ shared'["Service data"][w].timestamp >= now - 1]_vars

(***************************************************************************)
(* Properties of the shutdown.                                             *)
(***************************************************************************)
\* C29: once the supervision loop is left, by SIGINT, SIGTERM or an
\* exception, every worker that is alive when its turn comes is sent
\* terminate(), is waited for, and is sent kill() if it is still alive; when
\* the shutdown is complete no worker is alive.
C29_ShutdownStopsEveryWorker ==
    LET W == {processes[i] : i \in DOMAIN processes}
        passed == {processes[i] : i \in 1..(sup.i - 1)}
    IN /\ pc["Main"] \in {"finally", "join", "stopped"} =>
            /\ sup.cause \in {"SIGINT", "SIGTERM", "Exception"}
            /\ \A w \in passed : pc[w] \in {"done", "exited", "killed"}
            /\ \A w \in W : pc[w] = "exited" => w \in sup.terminate
            /\ \A w \in W : pc[w] = "killed" <=> w \in sup.kill
            /\ sup.kill \subseteq sup.terminate
       /\ pc["Main"] = "stopped" => \A w \in W : pc[w] \in {"done", "exited", "killed"}

C29_Witness ==
    /\ pc["Main"] = "stopped"
    /\ sup.cause = "SIGTERM"
    /\ sup.kill = {"SDS011"}
    /\ sup.terminate = {"SDS011", "sensor_community", "ENS160"}
    /\ pc["AHT20_BMP280"] = "done"

SensorNames == {"SDS011", "BMP280", "AHT20", "ENS160"}

\* C31: every entry of 'Sensor data' is keyed by a sensor family name and
\* maps field names to Reading records (value, unit, description, timestamp);
\* no bare scalar and no un-namespaced field lies directly under 'Sensor data'.
C31_SensorDataIsFamilies ==
    \A F \in DOMAIN shared["Sensor data"] :
        /\ F \in SensorNames
        /\ \A f \in DOMAIN shared["Sensor data"][F] :
               DOMAIN shared["Sensor data"][F][f] = DOMAIN Reading(0, "", "", 0)

\* C32: the store's top-level keys are exactly 'Sensor data' and 'Service data'.
C32_TwoNamespaces ==
    DOMAIN shared = {"Sensor data", "Service data"}

\* C33: every entry of 'Service data' is a process's {message, timestamp},
\* the message being a text.
C33_ServiceDataIsStatus ==
    \A P \in DOMAIN shared["Service data"] :
        /\ P \in Procs
        /\ DOMAIN shared["Service data"][P] = {"message", "timestamp"}
        /\ DOMAIN shared["Service data"][P].message = DOMAIN Msg("", 0)

(***************************************************************************)
(* Properties of the delivery tasks' handling of absent readings.          *)
(***************************************************************************)
\* the values of the data a delivery cycle took from the store that are None
AbsentFields(air_data) ==
    {f \in DOMAIN air_data \cap {"pm10", "pm25", "temperature", "pressure"} : air_data[f] = None}

\* C34: a cycle whose data holds an absent reading does not enter the task's
\* exception path, and so does not count as a failure.
C34_AbsentIsNoFailure ==
    AbsentFields(data["sensor_community"].val) # {} =>
        /\ pc["sensor_community"] # "sc_except"
        /\ ~(pc["sensor_community"] = "sc_backoff" /\ outcome["sensor_community"] = "exc")

(***************************************************************************)
(* Properties of the start of the program.                                 *)
(***************************************************************************)
\* the device drivers and the delivery tasks of the repository
DeviceDrivers == {"AHT20_BMP280", "ENS160", "SDS011", "CPU_TEMP"}

\* C35: the start of main does not end with an error, and when main is in its
\* supervision loop a worker of every device driver and of every delivery
\* task has been started, each once.
C35_EveryWorkerStarted ==
    /\ pc["Main"] # "raised"
    /\ pc["Main"] \in {"alive", "uss_copy", "uss_store", "sleep"} =>
          /\ \A w \in DeviceDrivers \cup Tasks : pc[w] # "off"
          /\ \A w \in DeviceDrivers \cup Tasks :
                 Cardinality({i \in DOMAIN processes : processes[i] = w}) = 1

(***************************************************************************)
(* Properties of the raw values.                                           *)
(***************************************************************************)
\* C36: for the bytes of a measurement, the raw humidity and the raw
\* temperature built with additions equal the same built with bitwise or,
\* and both are in 0..2^20-1, which puts the humidity in [0, 100) and the
\* temperature in [-50, 150).
C36_AddIsOrIn20Bits ==
    (pc["AHT20_BMP280"] = "converted") =>
        LET d == arg["AHT20_BMP280"].read
            r == arg["AHT20_BMP280"].result
        IN /\ r = AHT21_read(d)
           /\ r.hum_raw \in 0..(2^20 - 1)
           /\ r.temp_raw \in 0..(2^20 - 1)
           /\ 0 <= r.hum_raw * 100 /\ r.hum_raw * 100 < 100 * 2^20
           /\ -50 * 2^20 <= r.temp_raw * 200 - 50 * 2^20
           /\ r.temp_raw * 200 - 50 * 2^20 < 150 * 2^20

C36_Witness ==
    /\ pc["AHT20_BMP280"] = "converted"
    /\ arg["AHT20_BMP280"].read[4] = 255
    /\ arg["AHT20_BMP280"].result.hum_raw = 2^20 - 1
    /\ arg["AHT20_BMP280"].result.temp_raw = 2^20 - 1

\* C37: of the bytes (lo, hi), the signed word is v = lo + 256 * hi when
\* v <= 32767 and v - 65536 otherwise, in -32768..32767 and congruent to v
\* modulo 65536; the unsigned word is v; and the conversions written with
\* >= 0x8000 and with and/or give what the one with > 32767 gives.
C37_SignedWord ==
    (pc["BMP280"] = "converted") =>
        LET lo == arg["BMP280"].read[1]
            hi == arg["BMP280"].read[2]
            v == lo + 256 * hi
            r == arg["BMP280"].result
        IN /\ r.signed = IF v <= 32767 THEN v ELSE v - 65536
           /\ r.signed \in -32768..32767
           /\ (r.signed - v) % 65536 = 0
           /\ r.unsigned = v
           /\ to_signed(v) = r.signed
           /\ load_calibration_signed(v) = r.signed

C37_Witness ==
    /\ pc["BMP280"] = "converted"
    /\ arg["BMP280"].read = <<0, 128>>
    /\ arg["BMP280"].result.signed = -32768

(***************************************************************************)
(* Properties of the lock.                                                 *)
(***************************************************************************)
\* where a process is about to enter a with block of the lock
AcquirePcs == {"usd_copy", "uss_copy", "update", "sc_read"}

\* where a process is inside a with block of the lock
BlockPcs == {"usd_store", "uss_store", "copying", "set_status", "unlock", "sc_unlock"}

C39_NoHandleLeftOpen ==
    \A p \in Procs :
        (pc[p] \in {"done", "failed"} /\ driver[p] # None) => driver[p].bus # "open"

====
